---- MODULE Spec2Model ----
(***************************************************************************)
(* Agent-monitor plugin for the OpenCode host: the tool registry, the      *)
(* input sanitizer, the session state store (SessionManager) and the hook  *)
(* handlers of the plugin variants (http-sender, full Claude plugin).      *)
(*                                                                         *)
(* Strings that the code inspects (error messages, reasons) are sequences  *)
(* of words; a JavaScript value is a record tagged with its kind.          *)
(***************************************************************************)
EXTENDS Integers, Sequences, FiniteSets, TLC

VARIABLES
  san,          \* sanitizer harness: the call (tool, args) and its result
  store,        \* the SessionManager: sessions, idleTimers and the pending
                \* setTimeout(delete, 5000) callbacks of endSession
  plugin,       \* which plugin module the host has loaded
  metrics,      \* http-sender: sessions map id -> SessionMetrics, or NoSession
  pendingContextInjections, \* full plugin: id -> context, or NoContext
  tasks,        \* hook invocations in flight: async functions at an await,
                \* each with the request body it is awaiting the reply to
  stopTimers,   \* full plugin: pending setTimeout(stop check, 500), per id
  done,         \* the hook invocation that settled last, with its outcome
  calls,        \* number of hook invocations the host has made
  hostIds,      \* the session ids the host uses in this run
  interactionHandler, \* the UserInteractionHandler: its tables, its queue
                \* and the clock its ids come from
  trigger,      \* trigger harness: the prompt text and the result of
                \* checkPromptTriggers on it
  sessionMessageTracking, \* enhanced plugin: id -> pendingStopCheck and
                \* the pending setTimeout(stop check, 3000) callbacks
  lifecycle     \* the monitor's side: per session id, the SessionStart and
                \* SessionEnd events posted to it since the last SessionStart

vars == <<san, store, plugin, metrics,
          pendingContextInjections, tasks, stopTimers, done, calls,
          hostIds, interactionHandler, trigger, sessionMessageTracking, lifecycle,
          lifecycle>>

\* what no hook of the http-sender and full plugins writes: the harnesses,
\* the host's set-up and the state of the other modules
hostVars == <<san, plugin, hostIds, interactionHandler, trigger,
              sessionMessageTracking>>

pluginVars == <<plugin, metrics, pendingContextInjections, tasks, stopTimers,
                done, calls, hostIds, interactionHandler, trigger,
                sessionMessageTracking, lifecycle>>

-----------------------------------------------------------------------------
(* Bounds of the model *)

MaxCalls == 3      \* hook invocations the host makes in one run
MaxTasks == 2      \* hook invocations that may be suspended at the same time
MaxCount == 2      \* cap on toolCallCount / messageCount in the guards
MaxPurge == 1      \* cap on pending purge callbacks of one session id
MaxPrompts == 105  \* prompts submitted to the interaction handler
MaxSameMs == 1     \* submissions that fall in the millisecond of the one before
MaxHandlerPrompts == 2 \* prompts per run when several sessions are driven
MaxNotes == 2      \* notifications created in one run
MaxFragments == 3  \* fragments of a prompt text given to checkPromptTriggers

-----------------------------------------------------------------------------
(* Strings as sequences of words *)

\* String.prototype.includes
Includes(s, sub) ==
  \E i \in 0..(Len(s) - Len(sub)) :
     \A j \in 1..Len(sub) : s[i + j] = sub[j]

-----------------------------------------------------------------------------
(* JavaScript values of tool arguments *)

\* a string is the first len characters of the text named by text, followed
\* by the truncation marker when cut is TRUE
Str(text, len) == [k |-> "str", text |-> text, len |-> len, cut |-> FALSE]
Num(n)         == [k |-> "num", n |-> n]
Bool(b)        == [k |-> "bool", b |-> b]
Obj(o)         == [k |-> "obj", o |-> o]
Null           == [k |-> "null"]
Undefined      == [k |-> "undef"]

\* the typeof operator
typeof(v) ==
  CASE v.k = "str"   -> "string"
    [] v.k = "num"   -> "number"
    [] v.k = "bool"  -> "boolean"
    [] v.k = "undef" -> "undefined"
    [] OTHER         -> "object"

-----------------------------------------------------------------------------
(* Tool registry *)

CLAUDE_TOOLS ==
  {"Task", "Read", "Write", "Edit", "MultiEdit", "Glob", "Grep", "LS", "Bash",
   "BashOutput", "KillShell", "WebFetch", "WebSearch", "NotebookRead",
   "NotebookEdit", "TodoWrite", "ExitPlanMode"}

\* an entry without a sensitive field reads as sensitive = FALSE (undefined)
TOOL_REGISTRY ==
  [t \in CLAUDE_TOOLS |->
     CASE t = "Task" -> [category |-> "Subagent", sensitive |-> FALSE]
       [] t \in {"Read", "Write", "Edit", "MultiEdit"} ->
            [category |-> "File Operations", sensitive |-> TRUE]
       [] t \in {"Glob", "Grep", "LS"} ->
            [category |-> "Search Operations", sensitive |-> FALSE]
       [] t = "Bash" -> [category |-> "Shell Operations", sensitive |-> TRUE]
       [] t \in {"BashOutput", "KillShell"} ->
            [category |-> "Shell Operations", sensitive |-> FALSE]
       [] t \in {"WebFetch", "WebSearch"} ->
            [category |-> "Web Operations", sensitive |-> FALSE]
       [] t \in {"NotebookRead", "NotebookEdit"} ->
            [category |-> "Notebook Operations", sensitive |-> TRUE]
       [] t = "TodoWrite" -> [category |-> "Task Management", sensitive |-> FALSE]
       [] OTHER -> [category |-> "Planning", sensitive |-> FALSE]]

isClaudeTool(toolName) == toolName \in CLAUDE_TOOLS

NoMetadata == [category |-> "undefined", sensitive |-> FALSE]

getToolMetadata(toolName) ==
  IF ~isClaudeTool(toolName) THEN NoMetadata ELSE TOOL_REGISTRY[toolName]

-----------------------------------------------------------------------------
(* Input sanitizer (full plugin) *)

CommandLimit == 100
StringLimit  == 200

sanitizeSensitiveArgs(args) ==
  [_sanitized  |-> TRUE,
   param_count |-> Cardinality(DOMAIN args),
   param_types |-> [key \in DOMAIN args |-> typeof(args[key])]]

\* sanitizeArgValue with the length test ahead of the pass-through keys
sanitizeArgValue_LengthFirst(key, value) ==
  IF key = "command" /\ typeof(value) = "string"
    THEN [value EXCEPT !.len = IF @ > CommandLimit THEN CommandLimit ELSE @]
  ELSE IF typeof(value) = "string" /\ value.len > StringLimit
    THEN [value EXCEPT !.len = StringLimit, !.cut = TRUE]
  ELSE IF key \in {"pattern", "glob", "path"}
    THEN value
  ELSE IF typeof(value) = "object"
    THEN Str("[object]", 8)
  ELSE value

sanitizeArgValue(key, value) ==
  IF key = "command" /\ typeof(value) = "string"
    THEN [value EXCEPT !.len = IF @ > CommandLimit THEN CommandLimit ELSE @]
  ELSE IF key \in {"pattern", "glob", "path"}
    THEN value
  ELSE IF typeof(value) = "string" /\ value.len > StringLimit
    THEN [value EXCEPT !.len = StringLimit, !.cut = TRUE]
  ELSE IF typeof(value) = "object"
    THEN Str("[object]", 8)
  ELSE value

\* sanitizeToolInput without the branch on metadata.sensitive
sanitizeToolInput_NotSensitive(toolName, args) ==
  [key \in DOMAIN args |-> sanitizeArgValue(key, args[key])]

sanitizeToolInput(toolName, args) ==
  LET metadata == getToolMetadata(toolName) IN
  IF metadata.sensitive
    THEN sanitizeSensitiveArgs(args)
    ELSE [key \in DOMAIN args |-> sanitizeArgValue(key, args[key])]

-----------------------------------------------------------------------------
(* Sanitizer harness: one call of sanitizeToolInput on chosen inputs *)

\* tool names the host may pass: registered ones of each kind and two that
\* the registry does not know
ToolNames == {"Task", "Read", "Bash", "Grep", "bash", "custom"}

ArgKeys == {"command", "file_path", "pattern"}

ArgValues ==
  {Str("secret", 5), Str("secret", 150), Str("other", 250), Str("string", 6),
   Num(1), Bool(TRUE), Obj("o1"), Null, Undefined}

ArgMaps == UNION {[K -> ArgValues] : K \in SUBSET ArgKeys}

NoResult == [none |-> TRUE]

InitSan == san \in [tool : ToolNames, args : ArgMaps, out : {NoResult}]

SanitizeCall ==
  /\ san.out = NoResult
  /\ san' = [san EXCEPT !.out = sanitizeToolInput(san.tool, san.args)]
  /\ UNCHANGED <<store, pluginVars>>

-----------------------------------------------------------------------------
(* Session state store (SessionManager) *)

SessionIds == {"s1", "s2"}

NoSession == [absent |-> TRUE]
NoArgs    == [undefined |-> TRUE]

\* the record initSession constructs (timestamps and paths are left out:
\* the paths are fixed by the id, the times are only read by the idle sweep)
NewSession(actualSource) ==
  [source |-> actualSource,
   isFirstMessage |-> TRUE,
   toolCallCount |-> 0,
   activeTools |-> {},
   completedTools |-> {},
   lastToolName |-> "undefined",
   lastToolArgs |-> NoArgs,
   isResponding |-> FALSE,
   hasSubagent |-> FALSE,
   subagentCallId |-> "undefined",
   messageCount |-> 0,
   endReason |-> "undefined",
   stopHookActive |-> FALSE,
   subagentStopHookActive |-> FALSE]

InitStore ==
  [sessions    |-> [id \in SessionIds |-> NoSession],
   idleTimers  |-> [id \in SessionIds |-> "none"],
   purgeTimers |-> [id \in SessionIds |-> 0]]

getSession(st, sessionId) == st.sessions[sessionId]

has(st, sessionId) == st.sessions[sessionId] # NoSession

\* clearTimeout on the existing handle, then a new armed timer in the map
resetIdleTimer(st, sessionId) ==
  [st EXCEPT !.idleTimers[sessionId] = "armed"]

\* initSession without the resume branch: a new record on every call
initSession_AlwaysNew(st, sessionId, source) ==
  LET actualSource ==
        IF source # "undefined" THEN source
        ELSE IF has(st, sessionId) THEN "resume" ELSE "startup"
  IN resetIdleTimer(
       [st EXCEPT !.sessions[sessionId] = NewSession(actualSource)],
       sessionId)

initSession(st, sessionId, source) ==
  IF has(st, sessionId) /\ source = "resume"
    THEN resetIdleTimer(
           [st EXCEPT !.sessions[sessionId].source = "resume"], sessionId)
    ELSE LET actualSource ==
               IF source # "undefined" THEN source
               ELSE IF has(st, sessionId) THEN "resume" ELSE "startup"
         IN resetIdleTimer(
              [st EXCEPT !.sessions[sessionId] = NewSession(actualSource)],
              sessionId)

updateActivity(st, sessionId) ==
  IF has(st, sessionId) THEN resetIdleTimer(st, sessionId) ELSE st

\* checkForStopEvent without the messageCount test
checkForStopEvent_NoMessageTest(st, sessionId) ==
  IF ~has(st, sessionId) THEN st
  ELSE LET session == st.sessions[sessionId] IN
       IF /\ ~session.isResponding
          /\ session.activeTools = {}
          /\ ~session.stopHookActive
         THEN [st EXCEPT !.sessions[sessionId].stopHookActive = TRUE]
         ELSE st

checkForStopEvent(st, sessionId) ==
  IF ~has(st, sessionId) THEN st
  ELSE LET session == st.sessions[sessionId] IN
       IF /\ ~session.isResponding
          /\ session.activeTools = {}
          /\ session.messageCount > 0
          /\ ~session.stopHookActive
         THEN [st EXCEPT !.sessions[sessionId].stopHookActive = TRUE]
         ELSE st

setResponding(st, sessionId, responding) ==
  IF ~has(st, sessionId) THEN st
  ELSE LET st1 == [st EXCEPT !.sessions[sessionId].isResponding = responding]
       IN IF ~responding THEN checkForStopEvent(st1, sessionId) ELSE st1

startTool(st, sessionId, toolName, args) ==
  IF ~has(st, sessionId) THEN st
  ELSE resetIdleTimer(
         [st EXCEPT !.sessions[sessionId] =
            [@ EXCEPT !.toolCallCount = @ + 1,
                      !.activeTools = @ \cup {toolName},
                      !.lastToolName = toolName,
                      !.lastToolArgs = args,
                      !.isFirstMessage = FALSE,
                      !.hasSubagent = IF toolName = "Task" THEN TRUE ELSE @,
                      !.subagentCallId = IF toolName = "Task" THEN "task" ELSE @]],
         sessionId)

handleSubagentStop(st, sessionId) ==
  IF ~has(st, sessionId) THEN st
  ELSE LET session == st.sessions[sessionId] IN
       IF session.hasSubagent /\ ~session.subagentStopHookActive
         THEN [st EXCEPT !.sessions[sessionId].subagentStopHookActive = TRUE,
                         !.sessions[sessionId].hasSubagent = FALSE]
         ELSE st

completeTool(st, sessionId, toolName) ==
  IF ~has(st, sessionId) THEN st
  ELSE LET st1 == [st EXCEPT !.sessions[sessionId] =
                     [@ EXCEPT !.activeTools = @ \ {toolName},
                               !.completedTools = @ \cup {toolName}]]
           st2 == IF toolName = "Task" /\ st1.sessions[sessionId].hasSubagent
                    THEN handleSubagentStop(st1, sessionId) ELSE st1
       IN IF /\ st2.sessions[sessionId].activeTools = {}
             /\ ~st2.sessions[sessionId].isResponding
            THEN checkForStopEvent(st2, sessionId) ELSE st2

handleUserMessage(st, sessionId) ==
  IF ~has(st, sessionId) THEN st
  ELSE resetIdleTimer(
         [st EXCEPT !.sessions[sessionId] =
            [@ EXCEPT !.messageCount = @ + 1, !.isResponding = TRUE]],
         sessionId)

\* records the reason, clears and forgets the idle timer, schedules the purge
endSession(st, sessionId, reason) ==
  IF ~has(st, sessionId) THEN st
  ELSE [st EXCEPT !.sessions[sessionId].endReason = reason,
                  !.idleTimers[sessionId] = "none",
                  !.purgeTimers[sessionId] = @ + 1]

\* an idle timer callback that leaves the session as it is
handleIdleTimeout_Ignore(st, sessionId) == st

\* the callback of the idle timer
handleIdleTimeout(st, sessionId) ==
  IF ~has(st, sessionId) THEN st ELSE endSession(st, sessionId, "idle")

\* the callback endSession schedules: this.sessions.delete(sessionId)
purgeSession(st, sessionId) ==
  [st EXCEPT !.sessions[sessionId] = NoSession,
             !.purgeTimers[sessionId] = @ - 1]

-----------------------------------------------------------------------------
(* The monitor's replies and the host's calls *)

\* the phrases the handlers put into and look for in error messages
CheckFailed    == <<"Agent", "monitor", "check", "failed">>
BlockedPhrase  == <<"blocked", "by", "agent", "monitor">>
DefaultBlocked == <<"Tool", "call">> \o BlockedPhrase
PromptBlocked  == <<"Prompt", "blocked", "by", "monitor">>

\* reason strings of a blocking reply; <<>> is an absent or empty reason
Reasons == {<<>>, <<"x">>, <<"op">> \o BlockedPhrase}

\* contextToInject strings; "" is an absent or empty one
Contexts == {"c1"}

Control(block, reason, context) ==
  [block |-> block, reason |-> reason, contextToInject |-> context]

\* JSON bodies of a 2xx reply: block is "true", "false" or "missing"
Bodies ==
  {Control("false", <<>>, ""), Control("missing", <<>>, "")}
  \cup {Control("false", <<>>, c) : c \in Contexts}
  \cup {Control("true", r, "") : r \in Reasons}

\* what one fetch can come to: the connection fails, the status is not 2xx,
\* the 2xx body is not JSON, or the 2xx body is a JSON object
Failures == {[t |-> "refused"], [t |-> "status"], [t |-> "badjson"]}

Replies == Failures \cup {[t |-> "ok", body |-> b] : b \in Bodies}

\* replies to a request whose answer the handler does not look into: one
\* allowing and one blocking body stand for all bodies
PlainReplies ==
  Failures \cup {[t |-> "ok", body |-> Control("false", <<>>, "")],
                 [t |-> "ok", body |-> Control("true", <<"x">>, "")]}

\* the message of the error that fetch / response.json() raises
ReplyError(reply) ==
  CASE reply.t = "refused" -> <<"Connection", "refused">>
    [] reply.t = "status"  -> <<"Failed", "to", "send", "event", ":", "500">>
    [] OTHER               -> <<"Unexpected", "token">>

\* tool calls of the host: tool name and argument mapping
HostCalls ==
  IF plugin = "http"
    THEN {[tool |-> "bash", args |-> [command |-> Str("secret", 150)]],
          [tool |-> "read", args |-> [filePath |-> Str("other", 5)]]}
    ELSE {[tool |-> "Task", args |-> <<>>],
          [tool |-> "Bash", args |-> [command |-> Str("secret", 150)]]}

NoCall == [op |-> "none"]

NoTask == [hook |-> "none"]

TaskIds == 1..MaxTasks

\* the slot a new invocation takes: the lowest free one
FreeSlots ==
  {t \in TaskIds : tasks[t] = NoTask /\ \A u \in 1..(t - 1) : tasks[u] # NoTask}

\* no lifecycle event has been posted for any session
NoLifecycle == [id \in SessionIds |-> {}]

\* the monitor's record after the POST of an event: a SessionStart opens the
\* record of its session, a SessionEnd is added to it
posted(log, event) ==
  IF "hook_event_name" \notin DOMAIN event THEN log
  ELSE IF event.hook_event_name = "SessionStart"
    THEN [log EXCEPT ![event.session_id] = {"SessionStart"}]
  ELSE IF event.hook_event_name = "SessionEnd"
    THEN [log EXCEPT ![event.session_id] = @ \cup {"SessionEnd"}]
  ELSE log

\* an async function reaches an await on fetch: the invocation waits in its
\* slot with the request body it has sent
Suspend(t, task, event) ==
  /\ tasks' = [tasks EXCEPT ![t] = [task EXCEPT !.event = event]]
  /\ lifecycle' = posted(lifecycle, event)

\* an invocation settles: its promise resolves or rejects with a message
Settle(t, task, outcome, message, reply) ==
  /\ tasks' = [tasks EXCEPT ![t] = NoTask]
  /\ UNCHANGED lifecycle
  /\ done' = [hook |-> task.hook, id |-> task.id, tool |-> task.tool,
              pc |-> task.pc, outcome |-> outcome, message |-> message,
              reply |-> reply, injected |-> task.injected]

NewTask(hook, pc, id, tool, args) ==
  [hook |-> hook, pc |-> pc, id |-> id, tool |-> tool, args |-> args,
   injected |-> "", event |-> NoCall]

\* a handler that returns before its first await
NoReply == [t |-> "none"]

-----------------------------------------------------------------------------
(* http-sender plugin *)

NewMetrics == [toolCallCount |-> 0, tools |-> {}]

\* the args object of the tool.pre_execute payload, as JSON.stringify keeps it
httpArgs(tool, args) ==
  LET plain == DOMAIN args \ {"command", "filePath", "pattern"}
      command == IF tool = "bash" THEN {"command"} ELSE {}
      passed == {key \in {"filePath", "pattern"} \cap DOMAIN args :
                   args[key] # Undefined}
  IN [key \in plain \cup command \cup passed |->
        IF key \in plain THEN Str(typeof(args[key]), 0)
        ELSE IF key = "command"
          THEN IF "command" \in DOMAIN args /\ args[key].k = "str"
                 THEN [args[key] EXCEPT
                         !.len = IF @ > CommandLimit THEN CommandLimit ELSE @]
                 ELSE Str("String(value)", 0)
        ELSE args[key]]

\* the second half of the try block of tool.execute.before: count the call
\* and send tool.pre_execute
httpPreExecute(t, task) ==
  IF metrics[task.id] = NoSession
    THEN \* if (!session) return
         /\ Settle(t, [task EXCEPT !.pc = "gone"], "resolved", <<>>, NoReply)
         /\ UNCHANGED metrics
    ELSE /\ metrics' = [metrics EXCEPT ![task.id] =
                          [@ EXCEPT !.toolCallCount = @ + 1,
                                    !.tools = @ \cup {task.tool}]]
         /\ Suspend(t, [task EXCEPT !.pc = "pre"],
                    [type |-> "tool.pre_execute", sessionID |-> task.id,
                     tool |-> task.tool, args |-> httpArgs(task.tool, task.args),
                     toolCallCount |-> metrics'[task.id].toolCallCount])
         /\ UNCHANGED done

\* a catch block that logs the error and lets the tool run
httpBlock_FailOpen(t, task, message, reply) ==
  Settle(t, task, "resolved", <<>>, reply)

\* the catch block of tool.execute.before
httpBlock(t, task, message, reply) ==
  Settle(t, task, "rejected", CheckFailed \o <<":">> \o message, reply)

\* the host calls tool.execute.before
HttpBeforeCall ==
  \E id \in hostIds, call \in HostCalls, t \in FreeSlots :
     /\ plugin = "http"
     /\ calls < MaxCalls
     /\ calls' = calls + 1
     /\ LET task == NewTask("before", "call", id, call.tool, call.args) IN
        IF metrics[id] = NoSession
          THEN /\ metrics' = [metrics EXCEPT ![id] = NewMetrics]
               /\ Suspend(t, [task EXCEPT !.pc = "started"],
                          [type |-> "session.started", sessionID |-> id])
               /\ UNCHANGED done
          ELSE httpPreExecute(t, task)
     /\ UNCHANGED <<hostVars, store, pendingContextInjections, stopTimers>>

\* the reply to session.started arrives
HttpBeforeStarted ==
  \E t \in TaskIds, reply \in PlainReplies :
     /\ plugin = "http"
     /\ tasks[t] # NoTask
     /\ tasks[t].hook = "before" /\ tasks[t].pc = "started"
     /\ IF reply.t \in {"refused", "status"}
          THEN /\ httpBlock(t, tasks[t], ReplyError(reply), reply)
               /\ UNCHANGED metrics
          ELSE httpPreExecute(t, tasks[t])
     /\ UNCHANGED <<hostVars, store, pendingContextInjections, stopTimers,
                    calls>>

\* the check of the monitor's answer to tool.pre_execute
httpCheckResult(t, task, reply) ==
  IF reply.t \in {"refused", "status", "badjson"}
    THEN httpBlock(t, task, ReplyError(reply), reply)
  ELSE IF reply.body.block = "true"
    THEN httpBlock(t, task,
                   IF reply.body.reason # <<>> THEN reply.body.reason
                   ELSE DefaultBlocked, reply)
  ELSE Settle(t, task, "resolved", <<>>, reply)

\* the reply to tool.pre_execute arrives
HttpBeforeReply ==
  \E t \in TaskIds, reply \in Replies :
     /\ plugin = "http"
     /\ tasks[t] # NoTask
     /\ tasks[t].hook = "before" /\ tasks[t].pc = "pre"
     /\ httpCheckResult(t, tasks[t], reply)
     /\ UNCHANGED <<hostVars, store, metrics, pendingContextInjections,
                    stopTimers, calls>>

\* the host calls tool.execute.after
HttpAfterCall ==
  \E id \in hostIds, call \in HostCalls, t \in FreeSlots :
     /\ plugin = "http"
     /\ calls < MaxCalls
     /\ calls' = calls + 1
     /\ Suspend(t, NewTask("after", "post", id, call.tool, call.args),
                [type |-> "tool.post_execute", sessionID |-> id,
                 tool |-> call.tool])
     /\ UNCHANGED <<hostVars, store, metrics, pendingContextInjections,
                    stopTimers, done>>

\* the reply to tool.post_execute arrives; a failure is caught and logged
HttpAfterReply ==
  \E t \in TaskIds, reply \in PlainReplies :
     /\ plugin = "http"
     /\ tasks[t] # NoTask
     /\ tasks[t].hook = "after" /\ tasks[t].pc = "post"
     /\ Settle(t, tasks[t], "resolved", <<>>, reply)
     /\ UNCHANGED <<hostVars, store, metrics, pendingContextInjections,
                    stopTimers, calls>>

\* lifecycle events the host delivers to the event hook
HostEvents ==
  {"session.updated", "session.idle", "session.deleted", "session.error"}

\* the host calls the event hook
HttpEventCall ==
  \E id \in hostIds, type \in HostEvents, t \in FreeSlots :
     /\ plugin = "http"
     /\ calls < MaxCalls
     /\ calls' = calls + 1
     /\ LET task == NewTask("event", type, id, "", <<>>) IN
        IF type = "session.idle" /\ metrics[id] # NoSession
          THEN /\ Suspend(t, task,
                          [type |-> "session.idle", sessionID |-> id,
                           totalToolCalls |-> metrics[id].toolCallCount])
               /\ UNCHANGED done
        ELSE IF type = "session.error"
          THEN /\ Suspend(t, task, [type |-> "session.error", sessionID |-> id])
               /\ UNCHANGED done
        ELSE /\ Settle(t, task, "resolved", <<>>, NoReply)
     /\ UNCHANGED <<hostVars, store, metrics, pendingContextInjections,
                    stopTimers>>

\* the reply to session.idle / session.error arrives; after a delivered
\* session.idle the session's metrics are dropped
HttpEventReply ==
  \E t \in TaskIds, reply \in PlainReplies :
     /\ plugin = "http"
     /\ tasks[t] # NoTask
     /\ tasks[t].hook = "event"
     /\ metrics' = IF tasks[t].pc = "session.idle"
                      /\ reply.t \notin {"refused", "status"}
                     THEN [metrics EXCEPT ![tasks[t].id] = NoSession]
                     ELSE metrics
     /\ Settle(t, tasks[t], "resolved", <<>>, reply)
     /\ UNCHANGED <<hostVars, store, pendingContextInjections, stopTimers,
                    calls>>

NextHttp ==
  \/ HttpBeforeCall
  \/ HttpBeforeStarted
  \/ HttpBeforeReply
  \/ HttpAfterCall
  \/ HttpAfterReply
  \/ HttpEventCall
  \/ HttpEventReply

-----------------------------------------------------------------------------
(* Full Claude plugin.  plugin = "full" is full-claude-plugin.ts; plugin =   *)
(* "fullPrior" is the other copy of that module in the repository, whose    *)
(* sendClaudeEventWithControl has no try/catch, whose tool.execute.before   *)
(* wraps every error, and whose event hook handles session.idle and         *)
(* session.error only.                                                      *)

FullPlugins == {"full", "fullPrior"}

Returned(control) == [thrown |-> FALSE, control |-> control]
Thrown(message)   == [thrown |-> TRUE, message |-> message]

\* sendClaudeEventWithControl, from the reply fetch comes to: the control
\* object it returns or the error it raises
sendClaudeEventWithControl(reply) ==
  IF reply.t = "ok" THEN Returned(reply.body)
  ELSE IF plugin = "full"
    THEN Returned(Control("false", <<>>, ""))   \* catch: return {block: false}
    ELSE Thrown(ReplyError(reply))

\* the common fields of an event are fixed by the session id
ClaudeEvent(name, id) == [hook_event_name |-> name, session_id |-> id]

\* the error the build methods raise for an id that has no record
SessionNotFound(id) == <<"Session", id, "not", "found">>

buildSessionStartEvent(st, id) ==
  IF ~has(st, id) THEN Thrown(SessionNotFound(id))
  ELSE [hook_event_name |-> "SessionStart", session_id |-> id,
        source |-> st.sessions[id].source]

buildSessionEndEvent(st, id) ==
  IF ~has(st, id) THEN Thrown(SessionNotFound(id))
  ELSE [hook_event_name |-> "SessionEnd", session_id |-> id,
        reason |-> IF st.sessions[id].endReason # "undefined"
                     THEN st.sessions[id].endReason ELSE "unknown"]

\* a build method that fills the event of an unknown id with defaults
buildStopEvent_Defaults(st, id) ==
  [hook_event_name |-> "Stop", session_id |-> id,
   stop_hook_active |-> has(st, id) /\ st.sessions[id].stopHookActive]

buildStopEvent(st, id) ==
  IF ~has(st, id) THEN Thrown(SessionNotFound(id))
  ELSE [hook_event_name |-> "Stop", session_id |-> id,
        stop_hook_active |-> st.sessions[id].stopHookActive]

buildSubagentStopEvent(st, id) ==
  IF ~has(st, id) THEN Thrown(SessionNotFound(id))
  ELSE [hook_event_name |-> "SubagentStop", session_id |-> id,
        stop_hook_active |-> st.sessions[id].subagentStopHookActive]

\* a tool.execute.before that returns once the session is known, without
\* tracking the tool or sending PreToolUse
fullPreToolUse_Skip(t, task) ==
  /\ Settle(t, [task EXCEPT !.pc = "skipped"], "resolved", <<>>, NoReply)
  /\ UNCHANGED store

\* tool.execute.before from "Track tool start" to the await on PreToolUse
fullPreToolUse(t, task) ==
  /\ store' = startTool(store, task.id, task.tool, task.args)
  /\ Suspend(t, [task EXCEPT !.pc = "pre"],
             [hook_event_name |-> "PreToolUse", session_id |-> task.id,
              tool_name |-> task.tool,
              tool_input |-> sanitizeToolInput(task.tool, task.args)])
  /\ UNCHANGED done

\* the catch block of tool.execute.before
beforeCatch(t, task, message, reply) ==
  IF plugin = "full"
    THEN IF Includes(message, BlockedPhrase)
           THEN Settle(t, task, "rejected", message, reply)
           ELSE Settle(t, task, "resolved", <<>>, reply)
    ELSE Settle(t, task, "rejected", CheckFailed \o <<":">> \o message, reply)

\* the host calls tool.execute.before
FullBeforeCall ==
  \E id \in hostIds, call \in HostCalls, t \in FreeSlots :
     /\ plugin \in FullPlugins
     /\ calls < MaxCalls
     /\ calls' = calls + 1
     /\ LET task == NewTask("before", "call", id, call.tool, call.args) IN
        IF ~has(store, id)
          THEN LET st == initSession(store, id, "startup") IN
               /\ store' = st
               /\ Suspend(t, [task EXCEPT !.pc = "start"],
                          buildSessionStartEvent(st, id))
               /\ UNCHANGED done
          ELSE fullPreToolUse(t, task)
     /\ UNCHANGED <<hostVars, metrics, pendingContextInjections, stopTimers>>

\* the reply to the fallback SessionStart arrives
FullBeforeStarted ==
  \E t \in TaskIds, reply \in PlainReplies :
     /\ plugin \in FullPlugins
     /\ tasks[t] # NoTask
     /\ tasks[t].hook = "before" /\ tasks[t].pc = "start"
     /\ LET r == sendClaudeEventWithControl(reply) IN
        IF r.thrown
          THEN /\ beforeCatch(t, tasks[t], r.message, reply)
               /\ UNCHANGED store
          ELSE fullPreToolUse(t, tasks[t])
     /\ UNCHANGED <<hostVars, metrics, pendingContextInjections, stopTimers,
                    calls>>

\* the reply to PreToolUse arrives: block, or mark the session responding
FullBeforeReply ==
  \E t \in TaskIds, reply \in Replies :
     /\ plugin \in FullPlugins
     /\ tasks[t] # NoTask
     /\ tasks[t].hook = "before" /\ tasks[t].pc = "pre"
     /\ LET r == sendClaudeEventWithControl(reply) IN
        IF r.thrown
          THEN /\ beforeCatch(t, tasks[t], r.message, reply)
               /\ UNCHANGED store
        ELSE IF r.control.block = "true"
          THEN \* a tool-blocked notification is created, then the throw
               /\ beforeCatch(t, tasks[t],
                              IF r.control.reason # <<>> THEN r.control.reason
                              ELSE DefaultBlocked, reply)
               /\ UNCHANGED store
        ELSE \* contextToInject is logged only
             /\ store' = setResponding(store, tasks[t].id, TRUE)
             /\ Settle(t, tasks[t], "resolved", <<>>, reply)
     /\ UNCHANGED <<hostVars, metrics, pendingContextInjections, stopTimers,
                    calls>>

\* The host calls tool.execute.after for a tool call it has made; the hook
\* receives the tool name and the output, not the arguments, which the
\* invocation record keeps to name the call that is being completed.

\* pendingContextInjections.delete(sessionID), the value kept in the map
applyPendingContext_NoDelete(id) == pendingContextInjections

\* pendingContextInjections.delete(sessionID) once the value is attached
applyPendingContext(id) == [pendingContextInjections EXCEPT ![id] = ""]

\* the host calls tool.execute.after
FullAfterCall ==
  \E id \in hostIds, call \in HostCalls, t \in FreeSlots :
     /\ plugin \in FullPlugins
     /\ calls < MaxCalls
     /\ calls' = calls + 1
     /\ LET task == NewTask("after", "post", id, call.tool, call.args)
            pendingContext == pendingContextInjections[id]
        IN IF ~has(store, id)
             THEN /\ Settle(t, [task EXCEPT !.pc = "nosession"], "resolved",
                            <<>>, NoReply)
                  /\ UNCHANGED pendingContextInjections
             ELSE /\ pendingContextInjections' = applyPendingContext(id)
                  /\ Suspend(t, [task EXCEPT !.injected = pendingContext],
                        [hook_event_name |-> "PostToolUse", session_id |-> id,
                         tool_name |-> call.tool,
                         tool_input |->
                           sanitizeToolInput(call.tool,
                             IF store.sessions[id].lastToolArgs = NoArgs
                               THEN <<>> ELSE store.sessions[id].lastToolArgs),
                         context_injected |-> pendingContext # ""])
                  /\ UNCHANGED done
     /\ UNCHANGED <<hostVars, store, metrics, stopTimers>>

\* setTimeout(stop check, 500) at the end of tool.execute.after
scheduleStopCheck(id) == stopTimers' = [stopTimers EXCEPT ![id] = @ + 1]

\* the reply to PostToolUse arrives: complete the tool, send SubagentStop for
\* Task, schedule the Stop check
FullAfterPosted ==
  \E t \in TaskIds, reply \in PlainReplies :
     /\ plugin \in FullPlugins
     /\ tasks[t] # NoTask
     /\ tasks[t].hook = "after" /\ tasks[t].pc = "post"
     /\ LET r  == sendClaudeEventWithControl(reply)
            id == tasks[t].id
            st == completeTool(store, id, tasks[t].tool)
        IN IF r.thrown
             THEN /\ Settle(t, tasks[t], "resolved", <<>>, reply)
                  /\ UNCHANGED <<store, stopTimers>>
           ELSE IF tasks[t].tool = "Task"
             THEN /\ store' = st
                  /\ UNCHANGED stopTimers
                  /\ IF has(st, id)
                       THEN /\ Suspend(t, [tasks[t] EXCEPT !.pc = "substop"],
                                       buildSubagentStopEvent(st, id))
                            /\ UNCHANGED done
                       ELSE \* buildSubagentStopEvent throws, caught and logged
                            Settle(t, tasks[t], "resolved", <<>>, reply)
           ELSE /\ store' = st
                /\ scheduleStopCheck(id)
                /\ Settle(t, tasks[t], "resolved", <<>>, reply)
     /\ UNCHANGED <<hostVars, metrics, pendingContextInjections, calls>>

\* the reply to SubagentStop arrives
FullAfterSubagent ==
  \E t \in TaskIds, reply \in PlainReplies :
     /\ plugin \in FullPlugins
     /\ tasks[t] # NoTask
     /\ tasks[t].hook = "after" /\ tasks[t].pc = "substop"
     /\ IF sendClaudeEventWithControl(reply).thrown
          THEN UNCHANGED stopTimers
          ELSE scheduleStopCheck(tasks[t].id)
     /\ Settle(t, tasks[t], "resolved", <<>>, reply)
     /\ UNCHANGED <<hostVars, store, metrics, pendingContextInjections,
                    calls>>

\* the deferred Stop check runs: setResponding(false), then a Stop event if
\* the latch is set
StopTimerFires ==
  \E id \in SessionIds, t \in FreeSlots :
     /\ plugin \in FullPlugins
     /\ stopTimers[id] > 0
     /\ stopTimers' = [stopTimers EXCEPT ![id] = @ - 1]
     /\ LET st == setResponding(store, id, FALSE) IN
        /\ store' = st
        /\ IF has(st, id) /\ st.sessions[id].stopHookActive
             THEN Suspend(t, NewTask("timer", "stop", id, "", <<>>),
                          buildStopEvent(st, id))
             ELSE UNCHANGED <<tasks, lifecycle>>
     /\ UNCHANGED <<hostVars, metrics, pendingContextInjections, done, calls>>

\* the reply to the Stop event of the deferred check arrives; nothing
\* catches an error of the timer callback
StopTimerReply ==
  \E t \in TaskIds, reply \in PlainReplies :
     /\ plugin \in FullPlugins
     /\ tasks[t] # NoTask
     /\ tasks[t].hook = "timer"
     /\ LET r == sendClaudeEventWithControl(reply) IN
        IF r.thrown
          THEN Settle(t, tasks[t], "rejected", r.message, reply)
          ELSE Settle(t, tasks[t], "resolved", <<>>, reply)
     /\ UNCHANGED <<hostVars, store, metrics, pendingContextInjections,
                    stopTimers, calls>>

\* prompts of a user message: one plain, one that trips a trigger word
Prompts == {<<"hello">>, <<"my", " ", "password">>}

\* A prompt text is a sequence of fragments (words, blanks, runs of a
\* letter); a substring is a run of adjacent fragments.

\* String.prototype.toLowerCase, fragment by fragment
toLowerCase(text) ==
  [i \in 1..Len(text) |->
     CASE text[i] = "API"      -> "api"
       [] text[i] = "Password" -> "password"
       [] OTHER                -> text[i]]

\* the number of characters of a fragment
Characters(fragment) ==
  CASE fragment = " "         -> 1
    [] fragment = "a{10001}"  -> 10001
    [] fragment = "a{9990}"   -> 9990
    [] fragment \in {"rm", "my"} -> 2
    [] fragment \in {"-rf", "all", "api", "API", "key"} -> 3
    [] fragment = "drop"      -> 4
    [] fragment = "hello"     -> 5
    [] fragment \in {"format", "delete", "secret"} -> 6
    [] fragment \in {"database", "password", "Password"} -> 8
    [] OTHER                  -> 10    \* "credential"

\* String.prototype.length
RECURSIVE Length(_)
Length(text) ==
  IF text = <<>> THEN 0 ELSE Characters(Head(text)) + Length(Tail(text))

DangerousCommands ==
  {<<"rm", " ", "-rf">>, <<"format", " ">>, <<"delete", " ", "all">>,
   <<"drop", " ", "database">>}

PotentialIssues ==
  {<<"api", " ", "key">>, <<"password">>, <<"secret">>, <<"credential">>}

ContextLimit == 10000

\* checkPromptTriggers with the check for potential issues first
checkPromptTriggers_IssuesFirst(prompt) ==
  LET lower == toLowerCase(prompt) IN
  IF \E phrase \in PotentialIssues : Includes(lower, phrase)
    THEN "tool_blocked"
  ELSE IF \E phrase \in DangerousCommands : Includes(lower, phrase)
    THEN "permission_needed"
  ELSE IF Length(prompt) > ContextLimit
    THEN "context_limit"
  ELSE ""

\* UserInteractionHandler.checkPromptTriggers: the notification type, or ""
\* for null
checkPromptTriggers(prompt) ==
  LET lower == toLowerCase(prompt) IN
  IF \E phrase \in DangerousCommands : Includes(lower, phrase)
    THEN "permission_needed"
  ELSE IF \E phrase \in PotentialIssues : Includes(lower, phrase)
    THEN "tool_blocked"
  ELSE IF Length(prompt) > ContextLimit
    THEN "context_limit"
  ELSE ""

\* chat.message after handleUserPrompt has returned: count the message, then
\* reject when the prompt came back null
chatFinish(t, task, blocked, reply) ==
  /\ store' = handleUserMessage(store, task.id)
  /\ IF blocked
       THEN Settle(t, task, "rejected", PromptBlocked, reply)
       ELSE Settle(t, task, "resolved", <<>>, reply)

\* the host calls chat.message
FullChatCall ==
  \E id \in hostIds, role \in {"user", "assistant"}, prompt \in Prompts,
     t \in FreeSlots :
     /\ plugin \in FullPlugins
     /\ calls < MaxCalls
     /\ calls' = calls + 1
     /\ LET task == NewTask("chat", "prompt", id, "", <<>>) IN
        IF role # "user"
          THEN /\ prompt = <<"hello">>
               /\ Settle(t, [task EXCEPT !.pc = "notuser"], "resolved", <<>>,
                         NoReply)
               /\ UNCHANGED store
          ELSE /\ store' = IF has(store, id) THEN store
                           ELSE initSession(store, id, "startup")
               /\ Suspend(t, task,
                          [hook_event_name |-> "UserPromptSubmit",
                           session_id |-> id, prompt |-> prompt])
               /\ UNCHANGED done
     /\ UNCHANGED <<hostVars, metrics, pendingContextInjections, stopTimers>>

\* the reply to UserPromptSubmit arrives
FullChatReply ==
  \E t \in TaskIds, reply \in Replies :
     /\ plugin \in FullPlugins
     /\ tasks[t] # NoTask
     /\ tasks[t].hook = "chat" /\ tasks[t].pc = "prompt"
     /\ LET r  == sendClaudeEventWithControl(reply)
            id == tasks[t].id
        IN IF r.thrown
             THEN \* catch: error notification, the prompt proceeds
                  /\ chatFinish(t, tasks[t], FALSE, reply)
                  /\ UNCHANGED pendingContextInjections
           ELSE IF r.control.block = "true"
             THEN /\ Suspend(t, [tasks[t] EXCEPT !.pc = "blockedNotif"],
                             ClaudeEvent("Notification", id))
                  /\ UNCHANGED <<store, done, pendingContextInjections>>
           ELSE /\ pendingContextInjections' =
                     IF r.control.contextToInject # ""
                       THEN [pendingContextInjections EXCEPT
                               ![id] = r.control.contextToInject]
                       ELSE pendingContextInjections
                /\ IF checkPromptTriggers(tasks[t].event.prompt) # ""
                     THEN /\ Suspend(t, [tasks[t] EXCEPT !.pc = "triggerNotif"],
                                     ClaudeEvent("Notification", id))
                          /\ UNCHANGED <<store, done>>
                     ELSE chatFinish(t, tasks[t], FALSE, reply)
     /\ UNCHANGED <<hostVars, metrics, stopTimers, calls>>

\* the reply to the Notification of a blocked or triggering prompt arrives
FullChatNotified ==
  \E t \in TaskIds, reply \in PlainReplies :
     /\ plugin \in FullPlugins
     /\ tasks[t] # NoTask
     /\ tasks[t].hook = "chat"
     /\ tasks[t].pc \in {"blockedNotif", "triggerNotif"}
     /\ IF sendClaudeEventWithControl(reply).thrown
          THEN \* catch of handleUserPrompt: the prompt proceeds
               chatFinish(t, tasks[t], FALSE, reply)
          ELSE chatFinish(t, tasks[t], tasks[t].pc = "blockedNotif", reply)
     /\ UNCHANGED <<hostVars, metrics, pendingContextInjections, stopTimers,
                    calls>>

\* the catch block of the event hook: log, do not rethrow
eventCatch_Rethrow(t, task, message, reply) ==
  Settle(t, task, "rejected", message, reply)

eventCatch(t, task, message, reply) ==
  Settle(t, task, "resolved", <<>>, reply)

\* the host calls the event hook
FullEventCall ==
  \E id \in hostIds, type \in HostEvents, t \in FreeSlots :
     /\ plugin \in FullPlugins
     /\ calls < MaxCalls
     /\ calls' = calls + 1
     /\ LET task == NewTask("event", type, id, "", <<>>) IN
        IF plugin = "full" /\ type = "session.updated" /\ ~has(store, id)
          THEN LET st == initSession(store, id, "startup") IN
               /\ store' = st
               /\ Suspend(t, task, buildSessionStartEvent(st, id))
               /\ UNCHANGED done
        ELSE IF plugin = "full" /\ type = "session.idle" /\ has(store, id)
          THEN LET st == setResponding(store, id, FALSE) IN
               /\ store' = st
               /\ Suspend(t, task, buildStopEvent(st, id))
               /\ UNCHANGED done
        ELSE IF /\ has(store, id)
                /\ \/ plugin = "full" /\ type = "session.deleted"
                   \/ plugin = "fullPrior" /\ type = "session.idle"
          THEN /\ Suspend(t, task, buildSessionEndEvent(store, id))
               /\ UNCHANGED <<store, done>>
        ELSE IF type = "session.error" /\ has(store, id)
          THEN /\ Suspend(t, task, ClaudeEvent("Notification", id))
               /\ UNCHANGED <<store, done>>
        ELSE /\ Settle(t, task, "resolved", <<>>, NoReply)
             /\ UNCHANGED store
     /\ UNCHANGED <<hostVars, metrics, pendingContextInjections, stopTimers>>

\* the reply to an event of the event hook arrives
FullEventReply ==
  \E t \in TaskIds, reply \in PlainReplies :
     /\ plugin \in FullPlugins
     /\ tasks[t] # NoTask
     /\ tasks[t].hook = "event"
     /\ LET r  == sendClaudeEventWithControl(reply)
            id == tasks[t].id
            pc == tasks[t].pc
        IN IF r.thrown
             THEN /\ eventCatch(t, tasks[t], r.message, reply)
                  /\ UNCHANGED store
           ELSE IF pc = "session.deleted"
             THEN /\ store' = endSession(store, id, "deleted")
                  /\ Settle(t, tasks[t], "resolved", <<>>, reply)
           ELSE IF pc = "session.idle" /\ plugin = "fullPrior"
             THEN /\ store' = endSession(store, id, "idle")
                  /\ Settle(t, tasks[t], "resolved", <<>>, reply)
           ELSE IF pc = "session.error"
             THEN LET st == endSession(store, id, "error: E") IN
                  /\ store' = st
                  /\ IF has(st, id)
                       THEN /\ Suspend(t, [tasks[t] EXCEPT !.pc = "ended"],
                                       buildSessionEndEvent(st, id))
                            /\ UNCHANGED done
                       ELSE \* buildSessionEndEvent throws: Session not found
                            eventCatch(t, tasks[t],
                                       SessionNotFound(id), reply)
           ELSE /\ Settle(t, tasks[t], "resolved", <<>>, reply)
                /\ UNCHANGED store
     /\ UNCHANGED <<hostVars, metrics, pendingContextInjections, stopTimers,
                    calls>>


-----------------------------------------------------------------------------
(* Enhanced Claude plugin (enhanced-claude-sender.ts), plugin = "enhanced": *)
(* sendClaudeEvent raises on a failed fetch and on a non-2xx status,        *)
(* tool.execute.before wraps every error, and the Stop event is sent by     *)
(* checkAndSendStopEvent from the 500 ms timer of tool.execute.after, the   *)
(* 3 s timer of chat.message and the session.idle handler.                  *)

NoTracking ==
  [id \in SessionIds |-> [pendingStopCheck |-> FALSE, timers |-> 0]]

\* sendClaudeEvent raises for this reply
sendFails(reply) == reply.t \in {"refused", "status"}

\* the test of checkAndSendStopEvent
wantsStop(st, id) ==
  /\ has(st, id)
  /\ st.sessions[id].stopHookActive
  /\ ~st.sessions[id].isResponding
  /\ st.sessions[id].activeTools = {}

\* checkAndSendStopEvent after its await: session.stopHookActive = false
\* when the send returned, nothing when it raised (caught and logged)
afterStopSent(st, id, reply) ==
  IF sendFails(reply) \/ ~has(st, id) THEN st
  ELSE [st EXCEPT !.sessions[id].stopHookActive = FALSE]

\* checkAndSendSubagentStopEvent after its await
afterSubagentStopSent(st, id, reply) ==
  IF sendFails(reply) \/ ~has(st, id) THEN st
  ELSE [st EXCEPT !.sessions[id].subagentStopHookActive = FALSE]

\* the catch block of tool.execute.before
enhancedBlock(t, task, message, reply) ==
  Settle(t, task, "rejected", CheckFailed \o <<":">> \o message, reply)

\* the host calls tool.execute.before
EnhancedBeforeCall ==
  \E id \in hostIds, call \in HostCalls, t \in FreeSlots :
     /\ plugin = "enhanced"
     /\ calls < MaxCalls
     /\ calls' = calls + 1
     /\ LET task == NewTask("before", "call", id, call.tool, call.args) IN
        IF ~has(store, id)
          THEN LET st == initSession(store, id, "startup") IN
               /\ store' = st
               /\ Suspend(t, [task EXCEPT !.pc = "start"],
                          buildSessionStartEvent(st, id))
               /\ UNCHANGED done
          ELSE fullPreToolUse(t, task)
     /\ UNCHANGED <<hostVars, metrics, pendingContextInjections, stopTimers>>

\* the reply to SessionStart arrives
EnhancedBeforeStarted ==
  \E t \in TaskIds, reply \in PlainReplies :
     /\ plugin = "enhanced"
     /\ tasks[t] # NoTask
     /\ tasks[t].hook = "before" /\ tasks[t].pc = "start"
     /\ IF sendFails(reply)
          THEN /\ enhancedBlock(t, tasks[t], ReplyError(reply), reply)
               /\ UNCHANGED store
          ELSE fullPreToolUse(t, tasks[t])
     /\ UNCHANGED <<hostVars, metrics, pendingContextInjections, stopTimers,
                    calls>>

\* the reply to PreToolUse arrives
EnhancedBeforeReply ==
  \E t \in TaskIds, reply \in Replies :
     /\ plugin = "enhanced"
     /\ tasks[t] # NoTask
     /\ tasks[t].hook = "before" /\ tasks[t].pc = "pre"
     /\ IF reply.t # "ok"
          THEN /\ enhancedBlock(t, tasks[t], ReplyError(reply), reply)
               /\ UNCHANGED store
        ELSE IF reply.body.block = "true"
          THEN /\ enhancedBlock(t, tasks[t],
                                IF reply.body.reason # <<>>
                                  THEN reply.body.reason ELSE DefaultBlocked,
                                reply)
               /\ UNCHANGED store
        ELSE /\ store' = setResponding(store, tasks[t].id, TRUE)
             /\ Settle(t, tasks[t], "resolved", <<>>, reply)
     /\ UNCHANGED <<hostVars, metrics, pendingContextInjections, stopTimers,
                    calls>>

\* the host calls tool.execute.after
EnhancedAfterCall ==
  \E id \in hostIds, call \in HostCalls, t \in FreeSlots :
     /\ plugin = "enhanced"
     /\ calls < MaxCalls
     /\ calls' = calls + 1
     /\ LET task == NewTask("after", "post", id, call.tool, call.args) IN
        IF ~has(store, id)
          THEN Settle(t, [task EXCEPT !.pc = "nosession"], "resolved", <<>>,
                      NoReply)
          ELSE /\ Suspend(t, task,
                     [hook_event_name |-> "PostToolUse", session_id |-> id,
                      tool_name |-> call.tool,
                      tool_input |->
                        sanitizeToolInput(call.tool,
                          IF store.sessions[id].lastToolArgs = NoArgs
                            THEN <<>> ELSE store.sessions[id].lastToolArgs)])
               /\ UNCHANGED done
     /\ UNCHANGED <<hostVars, store, metrics, pendingContextInjections,
                    stopTimers>>

\* the reply to PostToolUse arrives: complete the tool, send SubagentStop
\* for Task when its flag is set, schedule the Stop check
EnhancedAfterPosted ==
  \E t \in TaskIds, reply \in PlainReplies :
     /\ plugin = "enhanced"
     /\ tasks[t] # NoTask
     /\ tasks[t].hook = "after" /\ tasks[t].pc = "post"
     /\ LET id == tasks[t].id
            st == completeTool(store, id, tasks[t].tool)
        IN IF sendFails(reply)
             THEN /\ Settle(t, tasks[t], "resolved", <<>>, reply)
                  /\ UNCHANGED <<store, stopTimers>>
           ELSE IF /\ tasks[t].tool = "Task"
                   /\ has(st, id)
                   /\ st.sessions[id].subagentStopHookActive
             THEN /\ store' = st
                  /\ Suspend(t, [tasks[t] EXCEPT !.pc = "substop"],
                             buildSubagentStopEvent(st, id))
                  /\ UNCHANGED <<done, stopTimers>>
           ELSE /\ store' = st
                /\ scheduleStopCheck(id)
                /\ Settle(t, tasks[t], "resolved", <<>>, reply)
     /\ UNCHANGED <<hostVars, metrics, pendingContextInjections, calls>>

\* the reply to SubagentStop arrives
EnhancedAfterSubagent ==
  \E t \in TaskIds, reply \in PlainReplies :
     /\ plugin = "enhanced"
     /\ tasks[t] # NoTask
     /\ tasks[t].hook = "after" /\ tasks[t].pc = "substop"
     /\ store' = afterSubagentStopSent(store, tasks[t].id, reply)
     /\ scheduleStopCheck(tasks[t].id)
     /\ Settle(t, tasks[t], "resolved", <<>>, reply)
     /\ UNCHANGED <<hostVars, metrics, pendingContextInjections, calls>>

\* checkAndSendStopEvent up to its await, called by a timer callback
enhancedStopCheck(t, hook, st, id) ==
  IF wantsStop(st, id)
    THEN Suspend(t, NewTask(hook, "stop", id, "", <<>>), buildStopEvent(st, id))
    ELSE UNCHANGED <<tasks, lifecycle>>

\* the 500 ms timer of tool.execute.after runs: setResponding(false), then
\* checkAndSendStopEvent
EnhancedStopTimerFires ==
  \E id \in SessionIds, t \in FreeSlots :
     /\ plugin = "enhanced"
     /\ stopTimers[id] > 0
     /\ stopTimers' = [stopTimers EXCEPT ![id] = @ - 1]
     /\ LET st == setResponding(store, id, FALSE) IN
        /\ store' = st
        /\ enhancedStopCheck(t, "timer", st, id)
     /\ UNCHANGED <<hostVars, metrics, pendingContextInjections, done, calls>>

\* the host calls chat.message: note the message, schedule the 3 s check
EnhancedChatCall ==
  \E id \in hostIds, t \in FreeSlots :
     /\ plugin = "enhanced"
     /\ calls < MaxCalls
     /\ calls' = calls + 1
     /\ sessionMessageTracking' =
          [sessionMessageTracking EXCEPT
             ![id] = [pendingStopCheck |-> TRUE, timers |-> @.timers + 1]]
     /\ store' = handleUserMessage(store, id)
     /\ Settle(t, NewTask("chat", "message", id, "", <<>>), "resolved", <<>>,
               NoReply)
     /\ UNCHANGED <<san, plugin, hostIds, interactionHandler, trigger, metrics,
                    pendingContextInjections, stopTimers>>

\* the 3 s timer of chat.message runs
EnhancedChatTimerFires ==
  \E id \in SessionIds, t \in FreeSlots :
     /\ plugin = "enhanced"
     /\ sessionMessageTracking[id].timers > 0
     /\ sessionMessageTracking' =
          [sessionMessageTracking EXCEPT
             ![id] = [pendingStopCheck |-> FALSE, timers |-> @.timers - 1]]
     /\ IF sessionMessageTracking[id].pendingStopCheck
          THEN enhancedStopCheck(t, "chatTimer", store, id)
          ELSE UNCHANGED <<tasks, lifecycle>>
     /\ UNCHANGED <<san, plugin, hostIds, interactionHandler, trigger, store,
                    metrics, pendingContextInjections, stopTimers, done, calls>>

\* the reply to the Stop event of a timer callback arrives
EnhancedStopReply ==
  \E t \in TaskIds, reply \in PlainReplies :
     /\ plugin = "enhanced"
     /\ tasks[t] # NoTask
     /\ tasks[t].hook \in {"timer", "chatTimer"}
     /\ store' = afterStopSent(store, tasks[t].id, reply)
     /\ Settle(t, tasks[t], "resolved", <<>>, reply)
     /\ UNCHANGED <<hostVars, metrics, pendingContextInjections, stopTimers,
                    calls>>

\* lifecycle events the enhanced plugin looks at, and one it ignores
EnhancedEvents ==
  {"session.idle", "session.error", "session.deleted", "installation.updated",
   "session.updated"}

RECURSIVE endAll(_, _)
\* handleInstallationUpdated: endSession on every record of the store
endAll(st, ids) ==
  IF ids = {} THEN st
  ELSE LET id == CHOOSE i \in ids : TRUE
       IN endAll(endSession(st, id, "installation_updated"), ids \ {id})

\* the host calls the event hook
EnhancedEventCall ==
  \E id \in hostIds, type \in EnhancedEvents, t \in FreeSlots :
     /\ plugin = "enhanced"
     /\ calls < MaxCalls
     /\ calls' = calls + 1
     /\ LET task == NewTask("event", type, id, "", <<>>) IN
        IF type = "session.idle" /\ has(store, id)
          THEN /\ IF wantsStop(store, id)
                    THEN Suspend(t, [task EXCEPT !.pc = "idleStop"],
                                 buildStopEvent(store, id))
                    ELSE Suspend(t, [task EXCEPT !.pc = "idleEnd"],
                                 buildSessionEndEvent(store, id))
               /\ UNCHANGED <<store, done>>
        ELSE IF type \in {"session.error", "session.deleted"} /\ has(store, id)
          THEN LET st == endSession(store, id,
                           IF type = "session.error" THEN "error: E"
                           ELSE "deleted")
               IN /\ store' = st
                  /\ Suspend(t, [task EXCEPT !.pc = "ended"],
                             buildSessionEndEvent(st, id))
                  /\ UNCHANGED done
        ELSE IF type = "installation.updated"
          THEN /\ store' = endAll(store, {i \in SessionIds : has(store, i)})
               /\ Settle(t, task, "resolved", <<>>, NoReply)
        ELSE /\ Settle(t, task, "resolved", <<>>, NoReply)
             /\ UNCHANGED store
     /\ UNCHANGED <<hostVars, metrics, pendingContextInjections, stopTimers>>

\* the reply to an event of the event hook arrives; the hook's catch block
\* logs an error of the SessionEnd send
EnhancedEventReply ==
  \E t \in TaskIds, reply \in PlainReplies :
     /\ plugin = "enhanced"
     /\ tasks[t] # NoTask
     /\ tasks[t].hook = "event"
     /\ LET id == tasks[t].id
            pc == tasks[t].pc
        IN IF pc = "idleStop"
             THEN LET st == afterStopSent(store, id, reply) IN
                  /\ store' = st
                  /\ IF has(st, id)
                       THEN /\ Suspend(t, [tasks[t] EXCEPT !.pc = "idleEnd"],
                                       buildSessionEndEvent(st, id))
                            /\ UNCHANGED done
                       ELSE Settle(t, tasks[t], "resolved", <<>>, reply)
           ELSE IF pc = "idleEnd" /\ ~sendFails(reply)
             THEN /\ store' = endSession(store, id, "idle")
                  /\ Settle(t, tasks[t], "resolved", <<>>, reply)
           ELSE /\ Settle(t, tasks[t], "resolved", <<>>, reply)
                /\ UNCHANGED store
     /\ UNCHANGED <<hostVars, metrics, pendingContextInjections, stopTimers,
                    calls>>

NextEnhanced ==
  \/ EnhancedBeforeCall
  \/ EnhancedBeforeStarted
  \/ EnhancedBeforeReply
  \/ EnhancedAfterCall
  \/ EnhancedAfterPosted
  \/ EnhancedAfterSubagent
  \/ EnhancedStopTimerFires
  \/ EnhancedChatCall
  \/ EnhancedChatTimerFires
  \/ EnhancedStopReply
  \/ EnhancedEventCall
  \/ EnhancedEventReply

-----------------------------------------------------------------------------
(* UserInteractionHandler: the prompt table, the per-session histories, the *)
(* notification table and the notification queue.  A prompt is named by its *)
(* submission number; an id is the session id with the value of Date.now()  *)
(* at the call; a notification object is named by its creation number, and  *)
(* the table and the queue hold the same object.                            *)

maxHistorySize == 100

NewHandler ==
  [prompts |-> <<>>, notifications |-> <<>>, promptHistory |-> <<>>,
   notificationQueue |-> <<>>, dismissTimers |-> {},
   now |-> 0, submitted |-> 0, created |-> 0, sameMs |-> 0]

\* Map.set, Map.delete and Map.get(key) || [] on a table
MapSet(map, key, value) ==
  [k \in DOMAIN map \cup {key} |-> IF k = key THEN value ELSE map[k]]

MapDelete(map, key) == [k \in DOMAIN map \ {key} |-> map[k]]

MapGetSeq(map, key) == IF key \in DOMAIN map THEN map[key] ELSE <<>>

\* `${sessionId}-prompt-${Date.now()}` and `${sessionId}-notif-${Date.now()}`
MakeId(sessionId, now) == [session |-> sessionId, at |-> now]

processUserPrompt(h, sessionId, promptId, prompt) ==
  LET metadata == [sessionId |-> sessionId, originalPrompt |-> prompt]
      prompts  == MapSet(h.prompts, promptId, metadata)
      history  == Append(MapGetSeq(h.promptHistory, sessionId), promptId)
  IN IF Len(history) > maxHistorySize
       THEN [h EXCEPT
               !.prompts = MapDelete(prompts, Head(history)),
               !.promptHistory = MapSet(@, sessionId, Tail(history))]
       ELSE [h EXCEPT
               !.prompts = prompts,
               !.promptHistory = MapSet(@, sessionId, history)]

\* the table and the queue receive the new object; an info notification
\* gets its auto-dismiss timer
createNotification(h, sessionId, notificationId, severity) ==
  LET notification ==
        [obj |-> h.created + 1,
         notificationId |-> notificationId,
         sessionId |-> sessionId,
         severity |-> severity,
         requiresAction |-> severity \in {"error", "critical"},
         dismissed |-> FALSE]
  IN [h EXCEPT
        !.created = @ + 1,
        !.notifications = MapSet(@, notificationId, notification),
        !.notificationQueue = Append(@, notification),
        !.dismissTimers = IF severity = "info"
                            THEN @ \cup {notification.obj} ELSE @]

\* notification.dismissed = true on one object, wherever it is held
setDismissed(h, obj) ==
  [h EXCEPT
     !.notifications =
        [id \in DOMAIN @ |->
           IF @[id].obj = obj THEN [@[id] EXCEPT !.dismissed = TRUE] ELSE @[id]],
     !.notificationQueue =
        [i \in 1..Len(@) |->
           IF @[i].obj = obj THEN [@[i] EXCEPT !.dismissed = TRUE] ELSE @[i]]]

getPendingNotifications(h, sessionId) ==
  SelectSeq(h.notificationQueue,
            LAMBDA n : n.sessionId = sessionId /\ ~n.dismissed
                       /\ n.requiresAction)

\* the queue without its first entry that has the id (findIndex, splice)
SpliceFirst(queue, notificationId) ==
  LET hits == {i \in 1..Len(queue) : queue[i].notificationId = notificationId}
  IN IF hits = {} THEN queue
     ELSE LET index == CHOOSE i \in hits : \A j \in hits : i <= j
          IN [i \in 1..(Len(queue) - 1) |->
                IF i < index THEN queue[i] ELSE queue[i + 1]]

dismissNotification(h, notificationId) ==
  IF notificationId \notin DOMAIN h.notifications THEN h
  ELSE LET h1 == setDismissed(h, h.notifications[notificationId].obj)
       IN [h1 EXCEPT !.notificationQueue = SpliceFirst(@, notificationId)]

getPromptHistory(h, sessionId) ==
  LET found == SelectSeq(MapGetSeq(h.promptHistory, sessionId),
                         LAMBDA id : id \in DOMAIN h.prompts)
  IN [i \in 1..Len(found) |-> h.prompts[found[i]]]

\* getSessionStats(...).totalPrompts
totalPrompts(h, sessionId) == Len(getPromptHistory(h, sessionId))

\* a clearSession that empties every table, as dispose does
clearSession_All(h, sessionId) ==
  [h EXCEPT !.prompts = <<>>, !.promptHistory = <<>>,
            !.notifications = <<>>, !.notificationQueue = <<>>]

clearSession(h, sessionId) ==
  LET history == MapGetSeq(h.promptHistory, sessionId)
      listed  == {history[i] : i \in 1..Len(history)}
  IN [h EXCEPT
        !.prompts = [id \in DOMAIN @ \ listed |-> @[id]],
        !.promptHistory = MapDelete(@, sessionId),
        !.notifications =
           [id \in {k \in DOMAIN @ : @[k].sessionId # sessionId} |-> @[id]],
        !.notificationQueue =
           SelectSeq(@, LAMBDA n : n.sessionId # sessionId)]

\* one call of processUserPrompt: the clock has moved on since the call
\* before, or it still shows the same millisecond
ProcessUserPrompt ==
  \E same \in BOOLEAN :
     /\ interactionHandler.submitted < MaxPrompts
     /\ same => /\ interactionHandler.submitted > 0
                /\ interactionHandler.sameMs < MaxSameMs
     /\ LET now == IF same THEN interactionHandler.now
                   ELSE interactionHandler.now + 1
            h   == [interactionHandler EXCEPT
                      !.now = now,
                      !.submitted = @ + 1,
                      !.sameMs = IF same THEN @ + 1 ELSE @]
        IN interactionHandler' =
             processUserPrompt(h, "s1", MakeId("s1", now), h.submitted)
     /\ UNCHANGED <<san, trigger, sessionMessageTracking, lifecycle, store, plugin, metrics,
                 pendingContextInjections,
                    tasks, stopTimers, done, calls, hostIds>>

-----------------------------------------------------------------------------
(* Idle defaults of the parts a specification does not drive *)

IdleSan    == san = [tool |-> "custom", args |-> <<>>, out |-> NoResult]
IdleStore  == store = InitStore
\* the hooks call the interaction handler for bookkeeping that no hook reads
\* back; the specifications of the plugins and of the store leave it as built
NotChecked == "not checked"

IdleHandler ==
  /\ interactionHandler = NewHandler
  /\ trigger = [prompt |-> <<>>, out |-> NotChecked]
IdlePlugin ==
  /\ plugin = "none"
  /\ metrics = [id \in SessionIds |-> NoSession]
  /\ pendingContextInjections = [id \in SessionIds |-> ""]
  /\ tasks = [t \in TaskIds |-> NoTask]
  /\ stopTimers = [id \in SessionIds |-> 0]
  /\ done = NoCall
  /\ calls = 0
  /\ hostIds = {}
  /\ sessionMessageTracking = NoTracking
  /\ lifecycle = NoLifecycle

-----------------------------------------------------------------------------
(* The store driven through its public methods, as the unit tests do *)

\* the methods never read or write another id's entries, so one id is driven
StoreIds     == {"s1"}
StoreTools   == {"Task", "Bash"}
StoreArgs    == {<<>>, [command |-> Str("secret", 150)]}
StoreSources == {"undefined", "startup", "resume", "clear"}

\* one public method returns: the store is replaced, the call is recorded
StoreCall(st, op, id) ==
  /\ store' = st
  /\ done' = [op |-> op, id |-> id]
  /\ UNCHANGED <<calls, san, trigger, sessionMessageTracking, lifecycle, plugin, metrics,
                 pendingContextInjections, tasks,
                 stopTimers, hostIds, interactionHandler>>

StoreInitSession ==
  \E id \in StoreIds, source \in StoreSources :
     StoreCall(initSession(store, id, source), "initSession", id)

StoreUpdateActivity ==
  \E id \in StoreIds :
     StoreCall(updateActivity(store, id), "updateActivity", id)

StoreSetResponding ==
  \E id \in StoreIds, responding \in BOOLEAN :
     StoreCall(setResponding(store, id, responding), "setResponding", id)

StoreStartTool ==
  \E id \in StoreIds, toolName \in StoreTools, args \in StoreArgs :
     /\ has(store, id) => store.sessions[id].toolCallCount < MaxCount
     /\ StoreCall(startTool(store, id, toolName, args), "startTool", id)

StoreCompleteTool ==
  \E id \in StoreIds, toolName \in StoreTools :
     StoreCall(completeTool(store, id, toolName), "completeTool", id)

StoreHandleUserMessage ==
  \E id \in StoreIds :
     /\ has(store, id) => store.sessions[id].messageCount < MaxCount
     /\ StoreCall(handleUserMessage(store, id), "handleUserMessage", id)

StoreEndSession ==
  \E id \in StoreIds, reason \in {"deleted", "error: E"} :
     /\ store.purgeTimers[id] < MaxPurge
     /\ StoreCall(endSession(store, id, reason), "endSession", id)

\* the idle timer of a session expires (60 s without a reset)
IdleTimerFires ==
  \E id \in SessionIds :
     /\ store.idleTimers[id] = "armed"
     /\ store.purgeTimers[id] < MaxPurge
     /\ store' = handleIdleTimeout(
                   [store EXCEPT !.idleTimers[id] = "fired"], id)
     /\ UNCHANGED <<san, pluginVars>>

\* a purge callback scheduled by endSession runs (5 s after the end)
PurgeTimerFires ==
  \E id \in SessionIds :
     /\ store.purgeTimers[id] > 0
     /\ store' = purgeSession(store, id)
     /\ UNCHANGED <<san, pluginVars>>

InitStoreSpec == IdleSan /\ IdleStore /\ IdlePlugin /\ IdleHandler

NextStore ==
  \/ StoreInitSession
  \/ StoreUpdateActivity
  \/ StoreSetResponding
  \/ StoreStartTool
  \/ StoreCompleteTool
  \/ StoreHandleUserMessage
  \/ StoreEndSession
  \/ IdleTimerFires
  \/ PurgeTimerFires

SpecStore == InitStoreSpec /\ [][NextStore]_vars

\* a callback scheduled with setTimeout(..., 5000) runs once its delay is over
SpecStoreFair == SpecStore /\ WF_vars(PurgeTimerFires)

-----------------------------------------------------------------------------
(* The store driven through its public methods and its build methods *)

StoreBuilders ==
  {"buildSessionStartEvent", "buildSessionEndEvent", "buildStopEvent",
   "buildSubagentStopEvent"}

\* the build method of that name
build(st, name, id) ==
  CASE name = "buildSessionStartEvent" -> buildSessionStartEvent(st, id)
    [] name = "buildSessionEndEvent"   -> buildSessionEndEvent(st, id)
    [] name = "buildStopEvent"         -> buildStopEvent(st, id)
    [] name = "buildSubagentStopEvent" -> buildSubagentStopEvent(st, id)

\* one build method returns or throws: the outcome is recorded
StoreBuild ==
  \E id \in StoreIds, name \in StoreBuilders :
     /\ done' = [op |-> name, id |-> id, result |-> build(store, name, id)]
     /\ UNCHANGED <<store, calls, san, trigger, sessionMessageTracking, lifecycle,
                    plugin, metrics, pendingContextInjections, tasks,
                    stopTimers, hostIds, interactionHandler>>

NextStoreBuild ==
  \/ NextStore
  \/ StoreBuild

SpecStoreBuild == InitStoreSpec /\ [][NextStoreBuild]_vars

-----------------------------------------------------------------------------
(* The store under tool calls that overlap: the host has up to MaxTasks     *)
(* tool calls executing, each between its startTool and its completeTool,   *)
(* and the calls may bear the same tool name.  A slot of tasks holds an     *)
(* executing call.                                                          *)

\* the first event for the session creates its record
CallsInitSession ==
  \E id \in StoreIds :
     /\ ~has(store, id)
     /\ StoreCall(initSession(store, id, "startup"), "initSession", id)

\* a tool call starts executing
CallStarts ==
  \E id \in StoreIds, toolName \in StoreTools, args \in StoreArgs,
     t \in FreeSlots :
     /\ has(store, id)
     /\ store.sessions[id].toolCallCount < MaxCount
     /\ store' = startTool(store, id, toolName, args)
     /\ tasks' = [tasks EXCEPT
                    ![t] = NewTask("tool", "executing", id, toolName, args)]
     /\ done' = [op |-> "startTool", id |-> id]
     /\ UNCHANGED <<calls, san, trigger, sessionMessageTracking, lifecycle, plugin,
                    metrics, pendingContextInjections, stopTimers, hostIds,
                    interactionHandler>>

\* an executing tool call completes
CallCompletes ==
  \E t \in TaskIds :
     /\ tasks[t] # NoTask
     /\ store' = completeTool(store, tasks[t].id, tasks[t].tool)
     /\ tasks' = [tasks EXCEPT ![t] = NoTask]
     /\ done' = [op |-> "completeTool", id |-> tasks[t].id]
     /\ UNCHANGED <<calls, san, trigger, sessionMessageTracking, lifecycle, plugin,
                    metrics, pendingContextInjections, stopTimers, hostIds,
                    interactionHandler>>

InitToolCalls == IdleSan /\ IdleStore /\ IdlePlugin /\ IdleHandler

NextToolCalls ==
  \/ CallsInitSession
  \/ CallStarts
  \/ CallCompletes
  \/ StoreHandleUserMessage
  \/ StoreSetResponding

SpecToolCalls == InitToolCalls /\ [][NextToolCalls]_vars

-----------------------------------------------------------------------------
(* The sanitizer on every input of the harness *)

InitSanSpec == InitSan /\ IdleStore /\ IdlePlugin /\ IdleHandler

NextSan == SanitizeCall

SpecSan == InitSanSpec /\ [][NextSan]_vars

-----------------------------------------------------------------------------
(* The interaction handler fed with prompts, as its unit tests do *)

InitPrompts == IdleSan /\ IdleStore /\ IdlePlugin /\ IdleHandler

NextPrompts == ProcessUserPrompt

SpecPrompts == InitPrompts /\ [][NextPrompts]_vars

-----------------------------------------------------------------------------
(* The plugins under the host: Init loads one plugin module.  A run of the  *)
(* host is shorter than the store's idle timeout (60 s), so the idle timer *)
(* does not expire here; the purge callbacks (5 s) and the deferred Stop   *)
(* checks (500 ms) run at any moment.                                      *)

Plugins == {"http", "full", "fullPrior"}

InitPlugins ==
  /\ IdleSan
  /\ IdleStore
  /\ IdleHandler
  /\ plugin \in Plugins
  /\ metrics = [id \in SessionIds |-> NoSession]
  /\ pendingContextInjections = [id \in SessionIds |-> ""]
  /\ tasks = [t \in TaskIds |-> NoTask]
  /\ stopTimers = [id \in SessionIds |-> 0]
  /\ done = NoCall
  /\ calls = 0
  /\ hostIds = {"s1"}
  /\ sessionMessageTracking = NoTracking
  /\ lifecycle = NoLifecycle

NextFull ==
  \/ FullBeforeCall
  \/ FullBeforeStarted
  \/ FullBeforeReply
  \/ FullAfterCall
  \/ FullAfterPosted
  \/ FullAfterSubagent
  \/ StopTimerFires
  \/ StopTimerReply
  \/ FullChatCall
  \/ FullChatReply
  \/ FullChatNotified
  \/ FullEventCall
  \/ FullEventReply
  \/ plugin \in FullPlugins /\ PurgeTimerFires

Next == NextHttp \/ NextFull

Spec == InitPlugins /\ [][Next]_vars

\* the host with http-sender.ts loaded
InitHttp == InitPlugins /\ plugin = "http"

SpecHttp == InitHttp /\ [][NextHttp]_vars

\* the host with full-claude-plugin.ts loaded
InitFull == InitPlugins /\ plugin = "full"

SpecFull == InitFull /\ [][NextFull]_vars

\* the host with full-claude-plugin.ts loaded, over a time long enough for
\* the idle timers of the store to expire
NextLifetime ==
  \/ NextFull
  \/ plugin \in FullPlugins /\ IdleTimerFires

SpecLifetime == InitFull /\ [][NextLifetime]_vars

-----------------------------------------------------------------------------
(* The interaction handler driven through its public methods for two        *)
(* sessions, with the auto-dismiss timers of its info notifications         *)

Severities == {"info", "error"}

\* Date.now() at a call: the clock has moved on since the call before, or
\* still shows the same millisecond
Tick(h, same) ==
  [h EXCEPT !.now = IF same THEN @ ELSE @ + 1,
            !.sameMs = IF same THEN @ + 1 ELSE @]

SameMs(same) ==
  same => /\ interactionHandler.now > 0
          /\ interactionHandler.sameMs < MaxSameMs

\* one public method returns: the handler is replaced, the call is recorded
HandlerCall(h, op, id) ==
  /\ interactionHandler' = h
  /\ done' = [op |-> op, id |-> id]
  /\ UNCHANGED <<san, trigger, sessionMessageTracking, lifecycle, store, plugin, metrics,
                 pendingContextInjections,
                 tasks, stopTimers, calls, hostIds>>

HandlerProcessUserPrompt ==
  \E id \in SessionIds, same \in BOOLEAN :
     /\ interactionHandler.submitted < MaxHandlerPrompts
     /\ SameMs(same)
     /\ LET h == [Tick(interactionHandler, same) EXCEPT !.submitted = @ + 1]
        IN HandlerCall(
             processUserPrompt(h, id, MakeId(id, h.now), h.submitted),
             "processUserPrompt", id)

HandlerCreateNotification ==
  \E id \in SessionIds, severity \in Severities, same \in BOOLEAN :
     /\ interactionHandler.created < MaxNotes
     /\ SameMs(same)
     /\ LET h == Tick(interactionHandler, same)
        IN HandlerCall(
             createNotification(h, id, MakeId(id, h.now), severity),
             "createNotification", id)

HandlerDismissNotification ==
  \E notificationId \in DOMAIN interactionHandler.notifications :
     HandlerCall(dismissNotification(interactionHandler, notificationId),
                 "dismissNotification", notificationId.session)

HandlerClearSession ==
  \E id \in SessionIds :
     HandlerCall(clearSession(interactionHandler, id), "clearSession", id)

\* the setTimeout(..., 5000) callback of an info notification runs
DismissTimerFires ==
  \E obj \in interactionHandler.dismissTimers :
     /\ interactionHandler' =
          [setDismissed(interactionHandler, obj) EXCEPT
             !.dismissTimers = @ \ {obj}]
     /\ done' = [op |-> "dismissTimer", id |-> "timer"]
     /\ UNCHANGED <<san, trigger, sessionMessageTracking, lifecycle, store, plugin, metrics,
                    pendingContextInjections,
                    tasks, stopTimers, calls, hostIds>>

InitHandler == IdleSan /\ IdleStore /\ IdlePlugin /\ IdleHandler

NextHandler ==
  \/ HandlerProcessUserPrompt
  \/ HandlerCreateNotification
  \/ HandlerDismissNotification
  \/ HandlerClearSession
  \/ DismissTimerFires

SpecHandler == InitHandler /\ [][NextHandler]_vars

-----------------------------------------------------------------------------
(* The store and the interaction handler of one plugin instance: prompts    *)
(* and notifications are recorded, sessions are created, and a session ends *)
(* by the clean-up of the session.deleted branch or by the store's own idle *)
(* timer.                                                                   *)

\* the clean-up of the session.deleted branch of the event hook, after its
\* SessionEnd send: endSession, then clearSession
SessionDeletedCleanup ==
  \E id \in StoreIds :
     /\ has(store, id)
     /\ store.purgeTimers[id] < MaxPurge
     /\ store' = endSession(store, id, "deleted")
     /\ interactionHandler' = clearSession(interactionHandler, id)
     /\ done' = [op |-> "session.deleted", id |-> id]
     /\ UNCHANGED <<calls, san, trigger, sessionMessageTracking, lifecycle, plugin,
                    metrics, pendingContextInjections, tasks, stopTimers,
                    hostIds>>

InitTracker == IdleSan /\ IdleStore /\ IdlePlugin /\ IdleHandler

NextTracker ==
  \/ CallsInitSession
  \/ HandlerProcessUserPrompt
  \/ HandlerCreateNotification
  \/ DismissTimerFires
  \/ SessionDeletedCleanup
  \/ IdleTimerFires
  \/ PurgeTimerFires

SpecTracker == InitTracker /\ [][NextTracker]_vars

-----------------------------------------------------------------------------
(* Trigger harness: one call of checkPromptTriggers on a chosen text *)

TriggerFragments ==
  {"rm", " ", "-rf", "format", "API", "key", "secret", "credential", "hello",
   "a{10001}", "a{9990}"}

TriggerPrompts == UNION {[1..n -> TriggerFragments] : n \in 0..MaxFragments}

CheckPromptTriggers ==
  /\ trigger.out = NotChecked
  /\ trigger' = [trigger EXCEPT !.out = checkPromptTriggers(trigger.prompt)]
  /\ UNCHANGED <<san, store, plugin, metrics, pendingContextInjections,
                 tasks, stopTimers, done, calls, hostIds, interactionHandler,
                 sessionMessageTracking, lifecycle>>

InitTriggers ==
  /\ IdleSan /\ IdleStore /\ IdlePlugin
  /\ interactionHandler = NewHandler
  /\ trigger \in [prompt : TriggerPrompts, out : {NotChecked}]

NextTriggers == CheckPromptTriggers

SpecTriggers == InitTriggers /\ [][NextTriggers]_vars

-----------------------------------------------------------------------------
(* Overlapping tool.execute.before calls on new sessions: the host issues   *)
(* the calls without awaiting them, on one session id or on two, and the    *)
(* replies of the monitor arrive in any order.                              *)

InitBefore ==
  /\ IdleSan
  /\ IdleStore
  /\ IdleHandler
  /\ plugin \in {"full", "http"}
  /\ metrics = [id \in SessionIds |-> NoSession]
  /\ pendingContextInjections = [id \in SessionIds |-> ""]
  /\ tasks = [t \in TaskIds |-> NoTask]
  /\ stopTimers = [id \in SessionIds |-> 0]
  /\ done = NoCall
  /\ calls = 0
  /\ hostIds = SessionIds
  /\ sessionMessageTracking = NoTracking
  /\ lifecycle = NoLifecycle

NextBefore ==
  \/ FullBeforeCall
  \/ FullBeforeStarted
  \/ FullBeforeReply
  \/ HttpBeforeCall
  \/ HttpBeforeStarted
  \/ HttpBeforeReply

SpecBefore == InitBefore /\ [][NextBefore]_vars

-----------------------------------------------------------------------------
(* The host with enhanced-claude-sender.ts loaded.  A run lasts longer than *)
(* the 3 s timer of chat.message and ends before a purge callback (5 s     *)
(* after an endSession) or the idle timer (60 s) of the store runs.        *)

InitEnhanced ==
  /\ IdleSan
  /\ IdleStore
  /\ IdleHandler
  /\ plugin = "enhanced"
  /\ metrics = [id \in SessionIds |-> NoSession]
  /\ pendingContextInjections = [id \in SessionIds |-> ""]
  /\ tasks = [t \in TaskIds |-> NoTask]
  /\ stopTimers = [id \in SessionIds |-> 0]
  /\ done = NoCall
  /\ calls = 0
  /\ hostIds = {"s1"}
  /\ sessionMessageTracking = NoTracking
  /\ lifecycle = NoLifecycle

SpecEnhanced == InitEnhanced /\ [][NextEnhanced]_vars

-----------------------------------------------------------------------------
(* Properties of the store *)

\* the Stop condition: not responding, no active tools, a message processed
StopCondition(session) ==
  /\ session.activeTools = {}
  /\ ~session.isResponding
  /\ session.messageCount > 0

StopLatched(st, id) == has(st, id) /\ st.sessions[id].stopHookActive

StopCalls == {"startTool", "completeTool", "setResponding"}

\* C2 as stated: after the last startTool / completeTool / setResponding call
\* on a session, stopHookActive is true if and only if the Stop condition
\* holds at that moment.
C2_StopIffCondition ==
  \A id \in StoreIds :
     (done.op \in StopCalls /\ done.id = id /\ has(store, id))
        => (store.sessions[id].stopHookActive
              <=> StopCondition(store.sessions[id]))

\* C2 amended: after the last startTool / completeTool / setResponding call,
\* the Stop condition implies stopHookActive; and stopHookActive turns from
\* false to true only in a step after which the Stop condition holds (the
\* latch then stays set while the session becomes busy again).
C2_StopLatch ==
  [][\A id \in StoreIds :
       /\ (done'.op \in StopCalls /\ done'.id = id /\ has(store', id)
            /\ StopCondition(store'.sessions[id]))
             => store'.sessions[id].stopHookActive
       /\ (~StopLatched(store, id) /\ StopLatched(store', id))
             => StopCondition(store'.sessions[id])]_vars

\* C2 witness: setResponding(false) has just latched stopHookActive after a
\* tool call completed and a user message was counted
C2_Witness ==
  /\ done = [op |-> "setResponding", id |-> "s1"]
  /\ has(store, "s1")
  /\ store.sessions["s1"].stopHookActive
  /\ StopCondition(store.sessions["s1"])
  /\ store.sessions["s1"].completedTools # {}

\* C13: initSession(id, 'resume') on an existing session returns the same
\* record with toolCallCount, messageCount, activeTools and completedTools
\* unchanged, only source updated (lastActivity is not in the model), and a
\* second consecutive resume changes nothing more.
C13_ResumeKeepsRecord ==
  \A id \in StoreIds :
     has(store, id) =>
       LET st == initSession(store, id, "resume") IN
       /\ st.sessions[id].toolCallCount = store.sessions[id].toolCallCount
       /\ st.sessions[id].messageCount = store.sessions[id].messageCount
       /\ st.sessions[id].activeTools = store.sessions[id].activeTools
       /\ st.sessions[id].completedTools = store.sessions[id].completedTools
       /\ st.sessions[id] = [store.sessions[id] EXCEPT !.source = "resume"]
       /\ initSession(st, id, "resume") = st

\* C13 witness: initSession(id, 'resume') has just returned on a record that
\* counted a tool call and a message (any other source resets the counters)
C13_Witness ==
  /\ done = [op |-> "initSession", id |-> "s1"]
  /\ has(store, "s1")
  /\ store.sessions["s1"].source = "resume"
  /\ store.sessions["s1"].toolCallCount > 0
  /\ store.sessions["s1"].messageCount > 0
  /\ store.sessions["s1"].completedTools # {}

\* completeTool(id, 'Task') returns on a record in which Task was active,
\* that is, after a startTool(id, 'Task')
CompletesTask(id) ==
  /\ done'.op = "completeTool" /\ done'.id = id
  /\ has(store, id) /\ has(store', id)
  /\ "Task" \in store.sessions[id].activeTools
  /\ "Task" \notin store'.sessions[id].activeTools

\* C14: for any number of Task cycles, immediately after each
\* completeTool(id, 'Task') that follows a startTool(id, 'Task'),
\* subagentStopHookActive is true and hasSubagent is false.
C14_TaskCycleSignalsSubagentStop ==
  [][\A id \in StoreIds :
       CompletesTask(id) =>
         /\ store'.sessions[id].subagentStopHookActive
         /\ ~store'.sessions[id].hasSubagent]_vars

\* a record leaves the store: sessions.delete(id) on an existing entry
Removed(id) == has(store, id) /\ ~has(store', id)

\* C17: a record is removed from the store only after an end reason has been
\* recorded on that same record.
C17_RemovedOnlyAfterEnd ==
  [][\A id \in StoreIds :
       Removed(id) => store.sessions[id].endReason # "undefined"]_vars

\* C18: after endSession(id) and the purge of the record no idle timer
\* remains armed for id, whatever store operations are called on id during
\* the grace window.
C18_NoTimerAfterPurge ==
  \A id \in StoreIds :
     (/\ ~has(store, id)
      /\ done.op \in {"startTool", "handleUserMessage", "updateActivity"}
      /\ done.id = id)
       => store.idleTimers[id] # "armed"

\* the idle timer of id expires: no store method returns in this step
IdleExpires(id) ==
  /\ store.idleTimers[id] = "armed"
  /\ store'.idleTimers[id] # "armed"
  /\ done' = done

\* C16: when the idle timer of a session fires (no activity-bumping call for
\* the idle threshold), endReason becomes 'idle' and the purge is scheduled;
\* and after the grace delay the session is no longer returned by getSession.
C16_IdleEndsAndPurges ==
  /\ [][\A id \in StoreIds :
          (IdleExpires(id) /\ has(store, id)) =>
            /\ has(store', id)
            /\ store'.sessions[id].endReason = "idle"
            /\ store'.purgeTimers[id] = store.purgeTimers[id] + 1]_vars
  /\ \A id \in StoreIds :
       (has(store, id) /\ store.sessions[id].endReason = "idle")
         ~> ~has(store, id)

\* C16 witness: the idle timer has fired on a session that had counted a
\* tool call; the record is ended with reason 'idle' and awaits its purge
C16_Witness ==
  /\ has(store, "s1")
  /\ store.sessions["s1"].endReason = "idle"
  /\ store.sessions["s1"].toolCallCount > 0
  /\ store.idleTimers["s1"] = "none"
  /\ store.purgeTimers["s1"] = 1

\* C19: after submitting n prompts to one session, getPromptHistory and
\* getSessionStats report exactly min(n, 100) retained prompts, these are
\* the n most recent in submission order, and every evicted prompt is absent
\* from the prompt lookup table.
C19_HistoryCap ==
  LET n        == interactionHandler.submitted
      retained == IF n < maxHistorySize THEN n ELSE maxHistorySize
      history  == getPromptHistory(interactionHandler, "s1")
  IN /\ Len(history) = retained
     /\ totalPrompts(interactionHandler, "s1") = retained
     /\ \A i \in 1..Len(history) :
          history[i].originalPrompt = n - retained + i
     /\ \A id \in DOMAIN interactionHandler.prompts :
          interactionHandler.prompts[id].originalPrompt > n - retained

\* C25: for any sequence of store operations on a session id (initSession
\* with any source, startTool, completeTool, setResponding,
\* handleUserMessage, updateActivity, endSession), toolCallCount never
\* decreases and activeTools loses an element only in completeTool.
C25_CountAndActiveMonotone ==
  [][\A id \in StoreIds :
       (has(store, id) /\ has(store', id)) =>
         /\ store'.sessions[id].toolCallCount
              >= store.sessions[id].toolCallCount
         /\ ~(store.sessions[id].activeTools
                \subseteq store'.sessions[id].activeTools)
              => done'.op = "completeTool"]_vars

\* the tool calls of session id that are executing
Executing(ts, id) == {t \in TaskIds : ts[t] # NoTask /\ ts[t].id = id}

\* C30: stopHookActive is never latched while a tool call of the session is
\* still executing: for any interleaving of startTool / completeTool pairs,
\* including two overlapping calls of the same tool name, activeTools is
\* empty only when every started call has completed, and stopHookActive
\* turns true only in a step after which no call of the session executes.
C30_NoLatchWhileExecuting ==
  /\ [](\A id \in StoreIds :
          (has(store, id) /\ store.sessions[id].activeTools = {})
            => Executing(tasks, id) = {})
  /\ [][\A id \in StoreIds :
          (~StopLatched(store, id) /\ StopLatched(store', id))
            => Executing(tasks', id) = {}]_vars

\* what the handler holds for one session id: its history, its prompts, its
\* notifications and its queue entries
HeldFor(h, sessionId) ==
  [history |-> IF sessionId \in DOMAIN h.promptHistory
                 THEN <<h.promptHistory[sessionId]>> ELSE <<>>,
   prompts |-> [id \in {k \in DOMAIN h.prompts :
                          h.prompts[k].sessionId = sessionId} |-> h.prompts[id]],
   notifications |->
     [id \in {k \in DOMAIN h.notifications :
                h.notifications[k].sessionId = sessionId} |->
        h.notifications[id]],
   queue |-> SelectSeq(h.notificationQueue,
                       LAMBDA n : n.sessionId = sessionId)]

HoldsNothing ==
  [history |-> <<>>, prompts |-> <<>>, notifications |-> <<>>, queue |-> <<>>]

\* C23: clearSession(sessionId) removes every prompt, notification and queued
\* notification of that session id (and its history), and leaves the
\* prompts, histories, notifications and queue entries of every other
\* session unchanged.
C23_ClearSessionFrame ==
  [][\A id \in SessionIds :
       (done'.op = "clearSession" /\ done'.id = id)
         => /\ HeldFor(interactionHandler', id) = HoldsNothing
            /\ \A other \in SessionIds \ {id} :
                 HeldFor(interactionHandler', other)
                   = HeldFor(interactionHandler, other)]_vars

\* C23 witness: clearSession("s1") has returned; "s2" still has its prompt
\* and its queued notification, "s1" has nothing left, and something of
\* "s1" was created before (two prompts and two notifications exist in all)
C23_Witness ==
  /\ done = [op |-> "clearSession", id |-> "s1"]
  /\ HeldFor(interactionHandler, "s1") = HoldsNothing
  /\ DOMAIN HeldFor(interactionHandler, "s2").prompts # {}
  /\ Len(HeldFor(interactionHandler, "s2").queue) = 1
  /\ interactionHandler.submitted = 2
  /\ interactionHandler.created = 2

\* the lower-cased text has a destructive-operation substring
Destructive(text) ==
  \/ Includes(toLowerCase(text), <<"rm", " ", "-rf">>)
  \/ Includes(toLowerCase(text), <<"format", " ">>)
  \/ Includes(toLowerCase(text), <<"delete", " ", "all">>)
  \/ Includes(toLowerCase(text), <<"drop", " ", "database">>)

\* the lower-cased text has a credential-like substring
CredentialLike(text) ==
  \/ Includes(toLowerCase(text), <<"api", " ", "key">>)
  \/ Includes(toLowerCase(text), <<"password">>)
  \/ Includes(toLowerCase(text), <<"secret">>)
  \/ Includes(toLowerCase(text), <<"credential">>)

\* C24: checkPromptTriggers evaluates destructive-operation substrings, then
\* credential-like substrings, then length over 10,000 characters, and
\* returns the first match: a text matching a destructive substring (and
\* possibly a credential one) yields permission_needed, a text matching only
\* a credential substring yields tool_blocked whatever its length, a text
\* matching neither yields context_limit when longer than 10,000 characters
\* and null otherwise.
C24_TriggerPriority ==
  trigger.out # NotChecked =>
    LET text == trigger.prompt IN
    /\ Destructive(text) => trigger.out = "permission_needed"
    /\ (~Destructive(text) /\ CredentialLike(text))
         => trigger.out = "tool_blocked"
    /\ (~Destructive(text) /\ ~CredentialLike(text) /\ Length(text) > 10000)
         => trigger.out = "context_limit"
    /\ (~Destructive(text) /\ ~CredentialLike(text) /\ Length(text) <= 10000)
         => trigger.out = ""

\* C24 witness: a text with both a destructive and a credential substring
\* was checked and gave permission_needed
C24_Witness ==
  /\ trigger.prompt = <<"format", " ", "secret">>
  /\ trigger.out = "permission_needed"

-----------------------------------------------------------------------------
(* Properties of the http-sender plugin *)

\* C5: in the http-sender plugin, tool.execute.before rejects with an error
\* containing 'Agent monitor check failed' whenever the monitor is unreachable
\* or answers with a non-2xx status, for the session.started send as well as
\* for the tool.pre_execute send.
C5_HttpFailsClosed ==
  (plugin = "http" /\ done # NoCall /\ done.hook = "before"
     /\ done.reply.t \in {"refused", "status"})
    => (done.outcome = "rejected" /\ Includes(done.message, CheckFailed))

\* C5 witness: the monitor answered session.started with a non-2xx status and
\* the hook has rejected
C5_Witness ==
  /\ plugin = "http" /\ done # NoCall
  /\ done.hook = "before" /\ done.pc = "started"
  /\ done.reply.t = "status" /\ done.outcome = "rejected"

\* C6: in the http-sender plugin, if the monitor's 2xx response to
\* tool.pre_execute is not valid JSON or is a JSON object without the block
\* field, tool.execute.before rejects.
C6_HttpInvalidResponseBlocks ==
  (plugin = "http" /\ done # NoCall /\ done.hook = "before" /\ done.pc = "pre"
     /\ (done.reply.t = "badjson"
          \/ (done.reply.t = "ok" /\ done.reply.body.block = "missing")))
    => done.outcome = "rejected"

-----------------------------------------------------------------------------
(* Properties of the full plugin *)

\* C1: in the full plugin's tool.execute.before, whenever the monitor's reply
\* to PreToolUse has block=true with a reason string r, the hook rejects with
\* an error whose message contains r, for every reason string r.
C1_BlockReasonRejects ==
  (plugin = "full" /\ done # NoCall /\ done.hook = "before"
     /\ done.pc = "pre" /\ done.reply.t = "ok"
     /\ done.reply.body.block = "true" /\ done.reply.body.reason # <<>>)
    => (done.outcome = "rejected"
          /\ Includes(done.message, done.reply.body.reason))

\* an invocation in slot t that awaits the reply to event name settles
SettlesSend(t, name) ==
  /\ tasks[t] # NoTask
  /\ tasks[t].event.hook_event_name = name
  /\ tasks'[t] = NoTask

\* C3: once a latched Stop obligation is consumed (a Stop event is built and
\* delivered for the session), stopHookActive is false.
C3_StopConsumedResets ==
  [][\A t \in TaskIds :
       (SettlesSend(t, "Stop") /\ done'.reply.t = "ok"
          /\ has(store', tasks[t].id))
         => ~store'.sessions[tasks[t].id].stopHookActive]_vars

\* C4: in the full plugin, when the monitor cannot be reached while
\* tool.execute.before is sending its events, the hook rejects with an error
\* whose message contains 'Agent monitor check failed'.
C4_FullFailsClosed ==
  (plugin = "full" /\ done # NoCall /\ done.hook = "before"
     /\ done.reply.t = "refused")
    => (done.outcome = "rejected" /\ Includes(done.message, CheckFailed))

\* C7: tool.execute.after and the event hook never reject, whatever the
\* monitor answers and whether or not the session is known, in each plugin.
C7_AfterAndEventNeverReject ==
  (done # NoCall /\ done.hook \in {"after", "event"})
    => done.outcome = "resolved"

\* C7 witness: in the copy whose send raises, the event hook has settled
\* after a refused connection on a known session, and has resolved
C7_Witness ==
  /\ plugin = "fullPrior" /\ done # NoCall
  /\ done.hook = "event" /\ done.pc = "session.error"
  /\ done.reply.t = "refused" /\ done.outcome = "resolved"
  /\ has(store, done.id)

\* slot t is taken by a tool.execute.after that sends PostToolUse
SendsPostToolUse(t) ==
  /\ tasks[t] = NoTask
  /\ tasks'[t] # NoTask
  /\ tasks'[t].hook = "after"

\* C8: a stored contextToInject is attached to the next PostToolUse of its
\* session and cleared in the same step, so no second PostToolUse carries
\* it; a PostToolUse with nothing pending reports context_injected = false;
\* and the stored value changes only there or when the reply to a
\* UserPromptSubmit stores a new one.
C8_InjectionOnce ==
  [][/\ \A t \in TaskIds :
          SendsPostToolUse(t) =>
            LET id == tasks'[t].id IN
            /\ tasks'[t].injected = pendingContextInjections[id]
            /\ tasks'[t].event.context_injected
                 = (pendingContextInjections[id] # "")
            /\ pendingContextInjections'[id] = ""
     /\ \A id \in SessionIds :
          pendingContextInjections'[id] # pendingContextInjections[id] =>
            \/ \E t \in TaskIds : SendsPostToolUse(t) /\ tasks'[t].id = id
            \/ \E t \in TaskIds :
                 /\ tasks[t] # NoTask
                 /\ tasks[t].hook = "chat" /\ tasks[t].pc = "prompt"
                 /\ tasks[t].id = id
                 /\ tasks'[t] # tasks[t]
                 /\ pendingContextInjections'[id] # ""]_vars

\* C8 witness: the first tool.execute.after has delivered the stored context
\* and a second one is sending its PostToolUse with nothing injected
C8_Witness ==
  /\ plugin = "full" /\ done # NoCall
  /\ done.hook = "after" /\ done.injected = "c1"
  /\ pendingContextInjections[done.id] = ""
  /\ \E t \in TaskIds :
       /\ tasks[t] # NoTask
       /\ tasks[t].hook = "after" /\ tasks[t].id = done.id
       /\ tasks[t].injected = "" /\ ~tasks[t].event.context_injected

\* C9: when the monitor's non-blocking reply to PreToolUse carries
\* contextToInject = c, the following tool.execute.after of the session sets
\* output.contextInjected to c.
C9_PreToolUseContextInjected ==
  [][\A t \in TaskIds :
       (SendsPostToolUse(t) /\ done # NoCall /\ done.hook = "before"
          /\ done.id = tasks'[t].id /\ done.outcome = "resolved"
          /\ done.reply.t = "ok" /\ done.reply.body.contextToInject # "")
         => tasks'[t].injected = done.reply.body.contextToInject]_vars

\* the tool_input of an event holds (a prefix of) the argument text
Carries(input, text) ==
  /\ "_sanitized" \notin DOMAIN input
  /\ \E key \in DOMAIN input :
       input[key].k = "str" /\ input[key].text = text

\* the PreToolUse and PostToolUse events awaiting their replies
ToolEvents ==
  {tasks[t].event : t \in {u \in TaskIds :
      /\ tasks[u] # NoTask
      /\ tasks[u].event.hook_event_name \in {"PreToolUse", "PostToolUse"}}}

\* C11: under any interleaving of tool.execute.before and tool.execute.after
\* on a session, no PreToolUse or PostToolUse event sent to the monitor
\* contains an argument value that was passed to a sensitive tool call (the
\* host passes the text "secret" to Bash only).
C11_NoSensitiveValueSent ==
  \A event \in ToolEvents : ~Carries(event.tool_input, "secret")

\* C12: for a Bash call whose command is longer than 100 characters, the
\* tool_input of the PreToolUse event has a command field shorter than the
\* original command.
C12_BashCommandTruncated ==
  \A t \in TaskIds :
     (/\ tasks[t] # NoTask
      /\ tasks[t].hook = "before" /\ tasks[t].pc = "pre"
      /\ tasks[t].tool = "Bash"
      /\ "command" \in DOMAIN tasks[t].args
      /\ tasks[t].args.command.len > CommandLimit)
       => /\ "command" \in DOMAIN tasks[t].event.tool_input
          /\ tasks[t].event.tool_input.command.len
               < tasks[t].args.command.len

\* C15: once the plugin has sent the SubagentStop event for a Task
\* completion (the event is delivered), subagentStopHookActive is false.
C15_SubagentStopConsumedResets ==
  [][\A t \in TaskIds :
       (SettlesSend(t, "SubagentStop") /\ done'.reply.t = "ok"
          /\ has(store', tasks[t].id))
         => ~store'.sessions[tasks[t].id].subagentStopHookActive]_vars

\* the deferred Stop check of id runs: its 500 ms delay has elapsed
StopCheckRuns(id) == stopTimers'[id] < stopTimers[id]

\* C20: after tool.execute.before and then tool.execute.after have run for a
\* session's tool call and no other tool is started, a Stop event for the
\* session is sent once the Stop-check delay has elapsed.
C20_StopAfterToolCall ==
  [][\A id \in SessionIds :
       (/\ StopCheckRuns(id)
        /\ has(store', id)
        /\ store'.sessions[id].toolCallCount > 0
        /\ store'.sessions[id].completedTools # {}
        /\ store'.sessions[id].activeTools = {}
        /\ \A t \in TaskIds : tasks[t] = NoTask)
         => \E t \in TaskIds :
               /\ tasks[t] = NoTask /\ tasks'[t] # NoTask
               /\ tasks'[t].id = id
               /\ tasks'[t].event.hook_event_name = "Stop"]_vars

\* the host delivers a session.idle event for id: the event hook is entered
\* and either waits on a send or returns at once
DeliversIdle(id) ==
  /\ calls' = calls + 1
  /\ \/ \E t \in TaskIds :
          /\ tasks[t] = NoTask /\ tasks'[t] # NoTask
          /\ tasks'[t].hook = "event" /\ tasks'[t].pc = "session.idle"
          /\ tasks'[t].id = id
     \/ /\ tasks' = tasks
        /\ done'.hook = "event" /\ done'.pc = "session.idle"
        /\ done'.id = id

\* C21: in the full plugin, when the host delivers a session.idle event for
\* a session that the plugin knows, the plugin sends a SessionEnd event
\* carrying that session id.
C21_IdleSendsSessionEnd ==
  [][\A id \in SessionIds :
       (plugin = "full" /\ DeliversIdle(id) /\ has(store, id))
         => \E t \in TaskIds :
               /\ tasks[t] = NoTask /\ tasks'[t] # NoTask
               /\ tasks'[t].event.hook_event_name = "SessionEnd"
               /\ tasks'[t].event.session_id = id]_vars

\* the name of an event, in either plugin's vocabulary
EventName(event) ==
  IF "type" \in DOMAIN event
    THEN CASE event.type = "session.started"  -> "SessionStart"
           [] event.type = "tool.pre_execute" -> "PreToolUse"
           [] OTHER -> event.type
    ELSE event.hook_event_name

\* the invocation in slot t initiates the send of an event called name
InitiatesSend(t, name) ==
  /\ tasks'[t] # NoTask
  /\ tasks'[t] # tasks[t]
  /\ EventName(tasks'[t].event) = name

\* the plugin holds state for the session id
Known(st, m, id) == IF plugin = "http" THEN m[id] # NoSession ELSE has(st, id)

C26_BlockedToolNotActive ==
  (plugin = "full" /\ calls = 1 /\ done # NoCall
     /\ done.hook = "before" /\ done.outcome = "rejected"
     /\ has(store, done.id))
    => store.sessions[done.id].activeTools = {}

\* the last invocation to settle delivered a Stop event for id: a deferred
\* Stop check, or the session.idle branch of the event hook
DeliveredStop(id) ==
  /\ done # NoCall
  /\ done.id = id
  /\ done.reply.t = "ok"
  /\ \/ done.hook = "timer"
     \/ done.hook = "event" /\ done.pc = "session.idle" /\ plugin = "full"

\* C27: each Stop obligation yields at most one Stop event in the full
\* plugin: when a Stop event has been delivered for a session whose
\* obligation is latched, and no hook has run since (nothing is in flight,
\* the session is idle with no active tools), the next deferred Stop check
\* or session.idle event sends no further Stop event.
C27_OneStopPerObligation ==
  [][\A id \in SessionIds :
       (/\ plugin = "full"
        /\ DeliveredStop(id)
        /\ \A u \in TaskIds : tasks[u] = NoTask
        /\ has(store, id)
        /\ store.sessions[id].stopHookActive
        /\ store.sessions[id].activeTools = {}
        /\ ~store.sessions[id].isResponding)
         => ~\E t \in TaskIds :
                /\ tasks'[t] # NoTask
                /\ tasks'[t].id = id
                /\ tasks'[t].event.hook_event_name = "Stop"]_vars

\* C29: the PostToolUse event sent for a tool call carries the sanitized
\* arguments of that same call: for any interleaving of tool.execute.before
\* and tool.execute.after hooks of several tool calls on one session, when
\* tool.execute.after runs for a call whose tool was started, is still
\* active and is past its tool.execute.before, PostToolUse.tool_input equals sanitizeToolInput(tool, args) for
\* the tool and args of the call being completed.
C29_PostToolUseOwnArgs ==
  [][\A t \in TaskIds :
       (/\ SendsPostToolUse(t)
        /\ has(store, tasks'[t].id)
        /\ tasks'[t].tool \in store.sessions[tasks'[t].id].activeTools
        /\ \A u \in TaskIds :
             tasks[u] # NoTask =>
               ~(tasks[u].hook = "before" /\ tasks[u].tool = tasks'[t].tool))
         => tasks'[t].event.tool_input
              = sanitizeToolInput(tasks'[t].tool, tasks'[t].args)]_vars

-----------------------------------------------------------------------------
(* Properties of the enhanced plugin *)

\* the invocations that await the reply to a Stop event of session id
StopsInFlight(id) ==
  {t \in TaskIds : /\ tasks[t] # NoTask
                   /\ tasks[t].id = id
                   /\ tasks[t].event.hook_event_name = "Stop"}

\* C28: in the enhanced plugin, for each latch of stopHookActive at most one
\* Stop event is sent, under any interleaving of the three callers of
\* checkAndSendStopEvent across its network suspension point: the flag is
\* cleared only when a send returns and cannot latch again before, so two
\* Stop sends of one session never await their replies at the same time.
C28_OneStopPerLatch ==
  \A id \in SessionIds : Cardinality(StopsInFlight(id)) <= 1

-----------------------------------------------------------------------------
(* Properties of the sanitizer *)

C31_SessionEndCarriesReason ==
  \A t \in TaskIds :
     (/\ tasks[t] # NoTask
      /\ tasks[t].hook = "event"
      /\ tasks[t].event.hook_event_name = "SessionEnd")
       => /\ tasks[t].event.reason # "unknown"
          /\ tasks[t].pc = "session.deleted"
               => tasks[t].event.reason = "deleted"
          /\ tasks[t].pc = "ended" => tasks[t].event.reason = "error: E"

\* a method of the store that changes a session returns for id
MutatorReturns(id) ==
  /\ done' # done
  /\ done'.id = id
  /\ done'.op \in {"startTool", "completeTool", "setResponding",
                   "handleUserMessage", "updateActivity", "endSession"}

\* a build method of the store returns or throws for id
BuilderReturns(id) ==
  /\ done' # done
  /\ done'.id = id
  /\ done'.op \in StoreBuilders

\* C32: for an id that has no record in the store, the four build methods
\* raise "Session <id> not found", and startTool, completeTool,
\* setResponding, handleUserMessage, updateActivity and endSession leave the
\* store as it is: no record is created and no timer is armed.
C32_UnknownIdThrowsOrNoOp ==
  [][\A id \in StoreIds :
       ~has(store, id)
         => /\ MutatorReturns(id) => store' = store
            /\ BuilderReturns(id)
                 => done'.result = Thrown(SessionNotFound(id))]_vars

\* C32 witness: buildStopEvent has thrown for "s1", which has no record, and
\* no timer of "s1" is armed or pending
C32_Witness ==
  /\ ~has(store, "s1")
  /\ done.op = "buildStopEvent"
  /\ done.result = Thrown(SessionNotFound("s1"))
  /\ store.idleTimers["s1"] = "none"
  /\ store.purgeTimers["s1"] = 0

\* the session id ends in this step: its end reason is recorded
SessionEnds(id) ==
  /\ has(store, id) /\ store.sessions[id].endReason = "undefined"
  /\ has(store', id) /\ store'.sessions[id].endReason # "undefined"

\* C33: when a session ends, by the session.deleted clean-up or by the
\* store's own idle timeout, the interaction handler afterwards holds no
\* prompt, prompt history, notification or queued notification of that
\* session id.
C33_EndClearsTracker ==
  [][\A id \in SessionIds :
       SessionEnds(id)
         => HeldFor(interactionHandler', id) = HoldsNothing]_vars

\* the rules of the claim, each with the cases the earlier rules leave
CommandRule(key, v)     == key = "command" /\ v.k = "str"
PassThroughRule(key, v) ==
  ~CommandRule(key, v) /\ key \in {"pattern", "glob", "path"}
LongStringRule(key, v)  ==
  /\ ~CommandRule(key, v) /\ ~PassThroughRule(key, v)
  /\ v.k = "str" /\ v.len > 200
ObjectRule(key, v)      ==
  /\ ~CommandRule(key, v) /\ ~PassThroughRule(key, v)
  /\ ~LongStringRule(key, v)
  /\ v.k \in {"obj", "null"}

\* C34: for a tool that is not flagged sensitive, or not registered,
\* sanitizeToolInput returns an object with exactly the keys of the input,
\* each value mapped by the first rule that applies: key "command" with a
\* string -> its first 100 characters; key "pattern", "glob" or "path" ->
\* unchanged; string longer than 200 -> its first 200 characters and the
\* truncation marker; object -> "[object]"; otherwise unchanged.
C34_NonSensitiveRules ==
  (san.out # NoResult /\ ~getToolMetadata(san.tool).sensitive)
    => /\ DOMAIN san.out = DOMAIN san.args
       /\ \A key \in DOMAIN san.args :
            LET v == san.args[key]
                r == san.out[key]
            IN /\ CommandRule(key, v)
                    => /\ r.k = "str" /\ r.text = v.text /\ ~r.cut
                       /\ r.len = IF v.len < 100 THEN v.len ELSE 100
               /\ PassThroughRule(key, v) => r = v
               /\ LongStringRule(key, v)
                    => r.k = "str" /\ r.text = v.text /\ r.len = 200 /\ r.cut
               /\ ObjectRule(key, v) => r = Str("[object]", 8)
               /\ (/\ ~CommandRule(key, v) /\ ~PassThroughRule(key, v)
                   /\ ~LongStringRule(key, v) /\ ~ObjectRule(key, v))
                    => r = v

\* C34 witness: a tool the registry does not know was called with a string
\* of 250 characters under "command", "pattern" and "file_path"; the first
\* came back as 100 characters, the second as it was, the third as 200
\* characters with the marker
C34_Witness ==
  /\ san.tool = "custom"
  /\ san.args = [command |-> Str("other", 250), pattern |-> Str("other", 250),
                 file_path |-> Str("other", 250)]
  /\ san.out # NoResult
  /\ san.out.command = Str("other", 100)
  /\ san.out.pattern = Str("other", 250)
  /\ san.out.file_path = [Str("other", 200) EXCEPT !.cut = TRUE]

\* C35: when the monitor has replied block = true to a UserPromptSubmit
\* event, the chat.message hook rejects with "Prompt blocked by monitor",
\* whatever becomes of the Notification it sends for the blocked prompt.
C35_BlockedPromptRejects ==
  [][\A t \in TaskIds :
       (/\ tasks[t] # NoTask
        /\ tasks[t].hook = "chat" /\ tasks[t].pc = "blockedNotif"
        /\ tasks'[t] = NoTask)
         => /\ done'.hook = "chat"
            /\ done'.outcome = "rejected"
            /\ done'.message = PromptBlocked]_vars

\* C36: the callback of the deferred Stop check (the 500 ms timer of
\* tool.execute.after) never ends in a rejection: a failed send of its Stop
\* event is absorbed.
C36_StopTimerAbsorbsFailure ==
  [][\A t \in TaskIds :
       (/\ tasks[t] # NoTask
        /\ tasks[t].hook = "timer"
        /\ tasks'[t] = NoTask)
         => /\ done'.hook = "timer"
            /\ done'.outcome = "resolved"]_vars

\* C37: in the full plugin the hook call that first touches a session, the
\* one that creates its record, sends SessionStart for it before any other
\* event of that session, whichever hook it is.
C37_SessionStartFirst ==
  [][\A id \in SessionIds :
       (plugin = "full" /\ ~has(store, id) /\ has(store', id))
         => \E t \in TaskIds :
               /\ InitiatesSend(t, "SessionStart")
               /\ tasks'[t].event.session_id = id]_vars

\* C38: a session for which SessionStart was sent and whose record is
\* removed from the store has had a SessionEnd event sent for it, also when
\* it was the store's own idle timer that ended it.
C38_SessionEndBeforeRemoval ==
  [][\A id \in SessionIds :
       (Removed(id) /\ "SessionStart" \in lifecycle[id])
         => "SessionEnd" \in lifecycle[id]]_vars

\* C39: the store's idle timer never ends a session that has a tool in
\* activeTools: no step records the end reason "idle" on a session whose
\* activeTools is not empty.
C39_IdleSparesActiveTools ==
  [][\A id \in SessionIds :
       (/\ has(store, id) /\ has(store', id)
        /\ store.sessions[id].endReason # "idle"
        /\ store'.sessions[id].endReason = "idle")
         => store.sessions[id].activeTools = {}]_vars

\* C40: the prompts processUserPrompt has processed for one session bear
\* distinct prompt ids, also when two are processed in the same
\* millisecond: no id occurs twice in a session's history.
C40_DistinctPromptIds ==
  \A id \in SessionIds :
     LET history == MapGetSeq(interactionHandler.promptHistory, id) IN
     \A i, j \in 1..Len(history) : i # j => history[i] # history[j]

====
